---- MODULE Spec2Model ----
(***************************************************************************)
(* A model of the agent execution engine of shell-ai: the sub-agent        *)
(* registry and loop (tools/agents.go), the background command registry    *)
(* (tools/tools.go), the top-level tool-calling loop (llm/llm.go) and the  *)
(* build watcher (tools/watch.go).                                         *)
(*                                                                         *)
(* Goroutines are modelled as processes with a program counter.  A step of *)
(* a goroutine is one critical section of the registry mutex, or one       *)
(* blocking call (a provider request, a tool execution, a command).        *)
(***************************************************************************)
EXTENDS Integers, Sequences, FiniteSets, TLC

(***************************************************************************)
(* Bounds of the explored behaviours.                                      *)
(***************************************************************************)
\* spawnAgent calls that are let through
MaxAgents == 2
\* runBackground calls that are let through
MaxTasks == 2
\* commands that run at one time in the registry specification
MaxRunningTasks == 1
\* agents whose goroutine runs at one time in the registry specification
MaxRunningAgents == 1
\* provider rounds that answer with tool calls, in the registry specification
SupToolRounds == 1
\* provider rounds whose tool calls are drawn from the rich set RichCalls
RichRounds == 1

(***************************************************************************)
(* Program constants.                                                      *)
(***************************************************************************)
\* agents.go:234  maxIterations := 15
maxIterations == 15
\* llm.go:250  maxIterations := 10
queryMaxIterations == 10

AgentIds == 1..MaxAgents
TaskIds == 1..MaxTasks

\* fmt.Sprintf("agent_%d", agentCounter), fmt.Sprintf("task_%d", taskCounter)
AgentID(n) == <<"agent", n>>
TaskID(n) == <<"task", n>>
\* the numeric suffix of an issued ID
Suffix(id) == id[2]

(***************************************************************************)
(* State.                                                                  *)
(***************************************************************************)
VARIABLES
    \* agents.go:37-42  agentConfig (endpoint, apiKey)
    agentConfig,
    \* agents.go:34  agentCounter
    agentCounter,
    \* agents.go:32  the keys of the map agentTasks (n stands for "agent_n")
    agentTasks,
    \* the AgentTask structs the map and the goroutines point to
    agents,
    \* runAgent's locals: pc, i, toolMessages, the calls being executed
    run,
    \* the context of each agent: TRUE once cancel() was invoked
    ctx,
    \* what each agent goroutine did: provider calls, handler executions,
    \* the last response it saw, whether a request could not be built, whether
    \* cancel() was invoked while it ran, and the tool list of its last request
    hist,
    \* the IDs spawnAgent returned, in the order of issue
    issuedAgents,
    \* tools.go:577  taskCounter
    taskCounter,
    \* tools.go:575  the keys of backgroundTasks
    backgroundTasks,
    \* the BackgroundTask structs
    tasks,
    \* the goroutine of each command: pc, and its context
    taskRun,
    \* the IDs runBackground returned, in the order of issue
    issuedTasks,
    \* the thread that calls the tool functions: its position inside a call
    caller,
    \* what the last finished call returned
    ret,
    \* llm.go:24  c.messages, the conversation of the client
    qmsgs,
    \* queryWithTools' locals: pc, i, toolMessages, the calls being executed
    q,
    \* watch.go:57  activeWatcher (0 stands for nil)
    activeWatcher,
    \* the Watcher structs and the goroutine of each
    watchers,
    \* docs.go:1358  knowledgeDB != nil
    knowledgeDB,
    \* the rows of the table error_patterns, by id
    patterns,
    \* what each attemptRepair did: its error, the pattern the lookup found
    \* (0 for none), whether that pattern's command would exit zero, its calls
    \* of RecordErrorPatternResult, whether it called tryCommonFixes, and its
    \* result
    repairLog,
    \* the call of attemptRepair each thread is in (0 is the thread that calls
    \* the tools, w the goroutine of watcher w): its position, its error, the
    \* pattern the lookup returned and how its commands ended
    attempt,
    \* the triggerBuild or diagnoseError call of the caller's thread: the
    \* errors it still has to go through and what it has reported so far
    buildCall,
    \* llm.go:23  c.config, the ModelConfig of the client
    llmConfig,
    \* llm.go:25, 29-30  the client's initialPromptLen, whether its db is set,
    \* and its sessionID (0 stands for "")
    client,
    \* the tables sessions and messages of the database in the home directory:
    \* the sessions in the order they were created, each with its messages,
    \* and the number of sessions created so far
    memoryDB,
    \* the fan-out scan the caller's thread is in (lanScan, portScan): its
    \* worker goroutines by position, the semaphore, the results channel
    scan,
    \* a call of one of the pure functions: its name, its argument and, once
    \* it has returned, its value
    call

agentVars == <<agentConfig, agentCounter, agentTasks, agents, run, ctx, hist, issuedAgents>>
taskVars == <<taskCounter, backgroundTasks, tasks, taskRun, issuedTasks>>
callerVars == <<caller, ret>>
queryVars == <<qmsgs, q>>
watchVars == <<activeWatcher, watchers, knowledgeDB, patterns, repairLog, attempt,
              buildCall>>
clientVars == <<llmConfig, client, memoryDB>>
netVars == <<scan>>
pureVars == <<call>>
otherVars == <<clientVars, netVars, pureVars>>
vars == <<agentVars, taskVars, callerVars, queryVars, watchVars, otherVars>>

(***************************************************************************)
(* Tools.                                                                  *)
(***************************************************************************)
\* AgentTools: the five agent-management tools (agents.go:51-126)
AgentTools == <<"spawn_agent", "list_agents", "get_agent_result",
                "wait_for_agent", "cancel_agent">>

\* The base list of tools.go:580-791
BaseTools == <<"read_file", "write_file", "run_command", "run_background",
               "check_task", "list_tasks", "kill_task", "list_files",
               "search_files", "append_file", "get_file_info", "git_status",
               "git_diff", "git_log">>

\* watch.go:61-134
WatchTools == <<"start_watch", "stop_watch", "watch_status", "trigger_build",
                "diagnose_error">>

\* docs.go:24-100
DocsTools == <<"get_docs", "search_docs", "list_docs", "fetch_web_docs",
               "get_system_info">>

\* docs.go:655-785
NetworkTools == <<"ssh_exec", "ssh_upload", "ssh_download", "ping_host", "port_scan",
                  "lan_scan", "wake_on_lan", "ssh_hosts">>

\* docs.go:1364-1526
KnowledgeTools == <<"learn_entity", "learn_relation", "learn_fact",
                    "learn_error_pattern", "recall_knowledge", "recall_facts",
                    "find_error_solution", "get_related", "knowledge_summary">>

\* AvailableTools after the init functions of the package have run, in the
\* order of its files: agents.go, docs.go, watch.go
AvailableTools ==
    BaseTools \o AgentTools \o DocsTools \o NetworkTools \o KnowledgeTools \o WatchTools

\* The mutant of isAgentTool: cancel_agent is missing from the table.
isAgentToolNoCancel(name) ==
    name \in {"spawn_agent", "list_agents", "get_agent_result", "wait_for_agent"}

\* agents.go:382-391
isAgentTool(name) ==
    name \in {"spawn_agent", "list_agents", "get_agent_result",
              "wait_for_agent", "cancel_agent"}

\* agents.go:372-380
filterAgentTools(tools) == SelectSeq(tools, LAMBDA t : ~isAgentTool(t))

\* The names the switch of ExecuteTool routes (tools.go:799-846)
DispatchedTools ==
    {"read_file", "write_file", "append_file", "run_command", "run_background",
     "check_task", "list_tasks", "kill_task", "list_files", "search_files",
     "get_file_info", "git_status", "git_diff", "git_log", "ssh_exec",
     "ssh_upload", "ssh_download", "ping_host", "port_scan", "lan_scan",
     "wake_on_lan", "ssh_hosts"}

\* Argument strings a model may send with a call
ArgsOk == "{\"path\":\"go.mod\"}"
ArgsMissing == "{\"path\":\"nofile\"}"
ArgsMalformed == "{\"path\":"
ArgsEmptyText == ""
ArgsNull == "null"
ArgsArray == "[\"go.mod\"]"
ArgsEmptyObject == "{}"
ArgsCommandTrue == "{\"command\":\"true\"}"
ArgsCommandFalse == "{\"command\":\"false\"}"
ArgsSshDown == "{\"host\":\"10.0.0.9\",\"command\":\"uptime\"}"
ArgsSshUp == "{\"host\":\"10.0.0.5\",\"command\":\"false\"}"
ArgsTask1 == "{\"task_id\":\"task_1\"}"

ArgumentStrings ==
    {ArgsOk, ArgsMissing, ArgsMalformed, ArgsEmptyText, ArgsNull, ArgsArray,
     ArgsEmptyObject, ArgsCommandTrue, ArgsCommandFalse, ArgsSshDown, ArgsSshUp,
     ArgsTask1}

\* A map without keys: the nil map and the map of "{}"
EmptyArgs == [k \in {} |-> ""]

\* json.Unmarshal([]byte(arguments), &args) with args a nil
\* map[string]interface{} (tools.go:794-795): an object fills the map, null
\* leaves it nil without an error, any other value and any text that is not
\* JSON is an error
Unmarshal(arguments) ==
    CASE arguments = ArgsOk -> [err |-> "", args |-> [path |-> "go.mod"]]
      [] arguments = ArgsMissing -> [err |-> "", args |-> [path |-> "nofile"]]
      [] arguments = ArgsEmptyObject -> [err |-> "", args |-> EmptyArgs]
      [] arguments = ArgsNull -> [err |-> "", args |-> EmptyArgs]
      [] arguments = ArgsCommandTrue -> [err |-> "", args |-> [command |-> "true"]]
      [] arguments = ArgsCommandFalse -> [err |-> "", args |-> [command |-> "false"]]
      [] arguments = ArgsSshDown ->
            [err |-> "", args |-> [host |-> "10.0.0.9", command |-> "uptime"]]
      [] arguments = ArgsSshUp ->
            [err |-> "", args |-> [host |-> "10.0.0.5", command |-> "false"]]
      [] arguments = ArgsTask1 -> [err |-> "", args |-> [task_id |-> "task_1"]]
      [] arguments = ArgsArray ->
            [err |-> "cannot unmarshal array into Go value of type map[string]interface {}",
             args |-> EmptyArgs]
      [] OTHER -> [err |-> "unexpected end of JSON input", args |-> EmptyArgs]

\* v, _ := args[key].(string)
StringArg(args, key) == IF key \in DOMAIN args THEN args[key] ELSE ""

\* docs.go:1178: sem := make(chan struct{}, 50)
PoolWidth == 50

\* docs.go:1169: the largest range lanScan accepts
MaxHosts == 256

\* docs.go:1076
DefaultPorts == <<22, 80, 443, 21, 23, 25, 53, 110, 143, 3306, 5432, 6379, 8080, 3389, 5900>>

\* Values of the ports argument
PortsTwo == "22, x, 80"
PortsMany == "8000,8001,...,8059"
PortsArguments == {"", "common", PortsTwo, PortsMany}

\* docs.go:1076-1086: the ports of a ports argument; an entry that is not a
\* number is left out
ParsePorts(portsStr) ==
    CASE portsStr \in {"", "common"} -> DefaultPorts
      [] portsStr = PortsTwo -> <<22, 80>>
      [] OTHER -> [j \in 1..60 |-> 7999 + j]

\* Values of the cidr argument, and the number of addresses of a range
\* (docs.go:1159-1167); 0 stands for the error of net.ParseCIDR
CidrArguments == {"", "10.0.0.0/30", "10.0.0.0/26", "10.0.0.0/23", "bogus"}
HostsOf(cidr) ==
    CASE cidr = "10.0.0.0/30" -> 4
      [] cidr = "192.168.1.0/30" -> 4
      [] cidr = "10.0.0.0/26" -> 64
      [] cidr = "10.0.0.0/23" -> 512
      [] OTHER -> 0

\* getLocalCIDR (docs.go:1127-1148): the range of the first interface that is
\* not the loopback, "" without one
LocalCIDRs == {"", "192.168.1.0/30"}

\* docs.go:1151-1171: the error lanScan returns for a range, "" for a range
\* it scans
CidrError(cidr) ==
    IF cidr = "" THEN "could not detect network"
    ELSE IF HostsOf(cidr) = 0 THEN "invalid CIDR"
    ELSE IF HostsOf(cidr) > MaxHosts THEN "CIDR range too large"
    ELSE ""

\* What the handlers find outside the program.  In every environment the
\* working directory holds the file go.mod and no file nofile, the host
\* 10.0.0.5 takes connections and 10.0.0.9 does not.  An environment tells
\*   git    whether the working directory is in a work tree with commits and
\*          without changes ("repository"), in none ("none"), or the git
\*          program is missing ("absent");
\*   ping   whether the process may open the socket of an unprivileged ping;
\*   ssh    whether ~/.ssh/config is a configuration ("config"), is missing
\*          ("none") or does not parse ("broken");
\*   local  what getLocalCIDR returns.
\* No handler reads two of these, so the three environments give every
\* handler each of its outcomes.
Workstation ==
    [git |-> "repository", ping |-> TRUE, ssh |-> "config", local |-> "192.168.1.0/30"]
Container == [git |-> "none", ping |-> FALSE, ssh |-> "none", local |-> ""]
Bare == [git |-> "absent", ping |-> TRUE, ssh |-> "broken", local |-> "192.168.1.0/30"]
Environments == {Workstation, Container, Bare}

\* return text, nil and return "", fmt.Errorf(err)
Returns(text) == [text |-> text, err |-> ""]
Fails(err) == [text |-> "", err |-> err]

\* args["path"] when it is a string that is not empty, "." otherwise
\* (tools.go:1123-1126, 1199-1202, 1263-1266)
PathOrDot(args) == IF StringArg(args, "path") # "" THEN args.path ELSE "."

\* readFile (tools.go:849-875)
readFile(args) ==
    IF "path" \notin DOMAIN args THEN Fails("path required")
    ELSE IF args.path = "go.mod" THEN Returns("module shell-ai")
    ELSE Fails("cannot access nofile")

\* writeFile (tools.go:877-901).  No argument string of the model carries a
\* content, so no call of the model writes
writeFile(args) ==
    IF "path" \notin DOMAIN args THEN Fails("path required")
    ELSE IF "content" \notin DOMAIN args THEN Fails("content required")
    ELSE Returns("Wrote")

\* appendFile (tools.go:903-930)
appendFile(args) ==
    IF "path" \notin DOMAIN args THEN Fails("path required")
    ELSE IF "content" \notin DOMAIN args THEN Fails("content required")
    ELSE Returns("Appended")

\* runCommand (tools.go:958-983): the text is the output of the command,
\* with the exit status behind it when the command fails
runCommand(args) ==
    IF "command" \notin DOMAIN args THEN Fails("command required")
    ELSE IF args.command = "true" THEN Returns("")
    ELSE IF args.command = "false" THEN Returns("\n[Exit: exit status 1]")
    ELSE Returns("up 3 days")

\* listTasks (tools.go:1077-1096)
listTasks ==
    Returns(IF backgroundTasks = {} THEN "No background tasks" ELSE "Background Tasks:")

\* listFiles (tools.go:1122-1169), never recursive here: the names of the
\* directory, or the error of os.ReadDir
listFiles(args) ==
    CASE PathOrDot(args) = "." -> Returns("go.mod")
      [] PathOrDot(args) = "go.mod" -> Fails("not a directory")
      [] OTHER -> Fails("no such file or directory")

\* searchFiles (tools.go:1198-1253), without pattern and content: the walk
\* leaves out every directory whose name starts with a dot, the root "."
\* too, and goes by a root that does not exist; a root that is a file is a
\* match
searchFiles(args) ==
    IF PathOrDot(args) = "go.mod" THEN Returns("go.mod")
    ELSE Returns("No matches found")

\* getFileInfo (tools.go:932-956)
getFileInfo(args) ==
    IF "path" \notin DOMAIN args THEN Fails("path required")
    ELSE IF args.path = "go.mod" THEN Returns("Path:")
    ELSE Fails("cannot access nofile")

\* gitStatus (tools.go:1262-1308): git -C path status; a path that is no
\* directory fails whatever the environment
gitStatus(env, args) ==
    IF PathOrDot(args) # "." \/ env.git = "absent" THEN Fails("git status failed")
    ELSE IF env.git = "none" THEN Returns("Not a git repository")
    ELSE Returns("Branch:")

\* gitDiff (tools.go:1310-1333), in the working directory
gitDiff(env, args) ==
    IF env.git = "repository" THEN Returns("No changes") ELSE Fails("git diff failed")

\* gitLog (tools.go:1335-1353), in the working directory
gitLog(env, args) ==
    IF env.git = "repository" THEN Returns("init") ELSE Fails("git log failed")

\* sshExec (docs.go:901-928): createSSHClient's error is returned as it is
sshExec(args) ==
    IF StringArg(args, "host") = "" \/ StringArg(args, "command") = ""
    THEN Fails("host and command required")
    ELSE IF args.host # "10.0.0.5" THEN Fails("dial tcp: no route to host")
    ELSE IF args.command = "false" THEN Returns("[Error: Process exited with status 1]")
    ELSE Returns("up 3 days")

\* sshUpload (docs.go:930-972) and sshDownload (docs.go:974-1020), up to the
\* connection: no argument string of the model carries the two paths
sshUpload(args) ==
    IF StringArg(args, "host") = "" \/ StringArg(args, "local_path") = ""
       \/ StringArg(args, "remote_path") = ""
    THEN Fails("host, local_path, and remote_path required")
    ELSE IF args.host # "10.0.0.5" THEN Fails("dial tcp: no route to host")
    ELSE Returns("Uploaded")

sshDownload(args) ==
    IF StringArg(args, "host") = "" \/ StringArg(args, "remote_path") = ""
       \/ StringArg(args, "local_path") = ""
    THEN Fails("host, remote_path, and local_path required")
    ELSE IF args.host # "10.0.0.5" THEN Fails("dial tcp: no route to host")
    ELSE Returns("Downloaded")

\* pingHost (docs.go:1022-1061): a host that does not answer is in the text,
\* as 100% loss
pingHost(env, args) ==
    IF StringArg(args, "host") = "" THEN Fails("host required")
    ELSE IF ~env.ping THEN Fails("ping failed")
    ELSE Returns("Ping")

\* wakeOnLan (docs.go:1239-1288), up to the packet: no argument string of the
\* model carries a mac
wakeOnLan(args) ==
    IF StringArg(args, "mac") = "" THEN Fails("MAC address required")
    ELSE Returns("Wake-on-LAN packet sent")

\* sshHosts (docs.go:1290-1346)
sshHosts(env) ==
    CASE env.ssh = "none" -> Returns("No ~/.ssh/config found")
      [] env.ssh = "broken" -> Fails("failed to parse SSH config")
      [] OTHER -> Returns("SSH Configured Hosts:")

\* taskID, ok := args["task_id"].(string) (tools.go:1042, 1099): the number of
\* the task named, 0 without the key
TaskArg(args) ==
    IF "task_id" \notin DOMAIN args THEN 0
    ELSE IF args.task_id = "task_1" THEN 1
    ELSE MaxTasks

\* What the handlers that go on in steps of their own return: the tests of
\* the arguments and the lookups, and the text of a call that goes through.
\* The steps are the actions runBackground, checkTask, killTask
\* (tools.go:985-1119), portScan and lanScan (docs.go:1070-1228), which
\* callExecuteTool takes for these names
SteppedHandler(env, name, args) ==
    CASE name = "run_background" ->
            IF "command" \notin DOMAIN args THEN Fails("command required")
            ELSE Returns("Started background task")
      [] name = "check_task" ->
            IF TaskArg(args) = 0 THEN Fails("task_id required")
            ELSE IF TaskArg(args) \notin backgroundTasks THEN Fails("not found")
            ELSE Returns(IF tasks[TaskArg(args)].Done THEN "Ended" ELSE "Running for")
      [] name = "kill_task" ->
            IF TaskArg(args) = 0 THEN Fails("task_id required")
            ELSE IF TaskArg(args) \notin backgroundTasks THEN Fails("not found")
            ELSE Returns(IF tasks[TaskArg(args)].Done THEN "already finished with status"
                                                      ELSE "killed")
      [] name = "port_scan" ->
            IF StringArg(args, "host") = "" THEN Fails("host required")
            ELSE Returns("Port scan for")
      [] OTHER ->
            LET cidr == IF StringArg(args, "cidr") = "" THEN env.local ELSE args.cidr
            IN IF CidrError(cidr) # "" THEN Fails(CidrError(cidr))
               ELSE Returns("Found active hosts")

\* The function the switch of ExecuteTool calls for a name, "" for a name
\* that is not routed (tools.go:799-846)
Handler(name) ==
    CASE name = "read_file" -> "readFile"
      [] name = "write_file" -> "writeFile"
      [] name = "append_file" -> "appendFile"
      [] name = "run_command" -> "runCommand"
      [] name = "run_background" -> "runBackground"
      [] name = "check_task" -> "checkTask"
      [] name = "list_tasks" -> "listTasks"
      [] name = "kill_task" -> "killTask"
      [] name = "list_files" -> "listFiles"
      [] name = "search_files" -> "searchFiles"
      [] name = "get_file_info" -> "getFileInfo"
      [] name = "git_status" -> "gitStatus"
      [] name = "git_diff" -> "gitDiff"
      [] name = "git_log" -> "gitLog"
      [] name = "ssh_exec" -> "sshExec"
      [] name = "ssh_upload" -> "sshUpload"
      [] name = "ssh_download" -> "sshDownload"
      [] name = "ping_host" -> "pingHost"
      [] name = "port_scan" -> "portScan"
      [] name = "lan_scan" -> "lanScan"
      [] name = "wake_on_lan" -> "wakeOnLan"
      [] name = "ssh_hosts" -> "sshHosts"
      [] OTHER -> ""

\* The switch of ExecuteTool (tools.go:799-846) for a routed name: what the
\* handler returns for the map of the arguments
Dispatch(env, name, args) ==
    CASE name = "read_file" -> readFile(args)
      [] name = "write_file" -> writeFile(args)
      [] name = "append_file" -> appendFile(args)
      [] name = "run_command" -> runCommand(args)
      [] name = "list_tasks" -> listTasks
      [] name = "list_files" -> listFiles(args)
      [] name = "search_files" -> searchFiles(args)
      [] name = "get_file_info" -> getFileInfo(args)
      [] name = "git_status" -> gitStatus(env, args)
      [] name = "git_diff" -> gitDiff(env, args)
      [] name = "git_log" -> gitLog(env, args)
      [] name = "ssh_exec" -> sshExec(args)
      [] name = "ssh_upload" -> sshUpload(args)
      [] name = "ssh_download" -> sshDownload(args)
      [] name = "ping_host" -> pingHost(env, args)
      [] name = "wake_on_lan" -> wakeOnLan(args)
      [] name = "ssh_hosts" -> sshHosts(env)
      [] OTHER -> SteppedHandler(env, name, args)

\* The value of a call that ended in the handler of a name
Handled(name, r) == [handler |-> Handler(name), text |-> r.text, err |-> r.err]

\* The mutant of ExecuteTool: the name is looked at before the arguments.
ExecuteToolNameFirst(env, name, arguments) ==
    LET u == Unmarshal(arguments) IN
    IF name \notin DispatchedTools
    THEN [handler |-> "", text |-> "", err |-> "unknown tool"]
    ELSE IF u.err # ""
    THEN [handler |-> "", text |-> "", err |-> "invalid arguments"]
    ELSE Handled(name, Dispatch(env, name, u.args))

\* ExecuteTool (tools.go:793-847) in an environment: the arguments are
\* unmarshalled, then the switch routes the name.  The value names the
\* handler that was called ("" for none) beside the text and the error.
ExecuteTool(env, name, arguments) ==
    LET u == Unmarshal(arguments) IN
    IF u.err # ""
    THEN [handler |-> "", text |-> "", err |-> "invalid arguments"]
    ELSE IF name \notin DispatchedTools
    THEN [handler |-> "", text |-> "", err |-> "unknown tool"]
    ELSE Handled(name, Dispatch(env, name, u.args))

\* fmt.Sprintf("Error: %v", execErr) (agents.go:353, llm.go:324)
ErrorText(err) == "Error: " \o err

DeclineText == "Sub-agents cannot spawn other agents"
MaxIterText == "Agent reached maximum iterations without final response"

(***************************************************************************)
(* Provider responses.                                                     *)
(***************************************************************************)
SimpleCall == [id |-> "call_1", name |-> "read_file", arguments |-> ArgsOk]
FinalChoice == [content |-> "final answer", tool_calls |-> <<>>]
ToolChoice(calls) == [content |-> "", tool_calls |-> calls]

\* agents.go:155-157: the total_tokens a response reports under usage
ResponseTokens == 40

TransportError ==
    [transport |-> "error", status |-> 0, body |-> "", choices |-> <<>>, usage |-> 0]
HttpResponse(status, body, choices) ==
    [transport |-> "ok", status |-> status, body |-> body, choices |-> choices,
     usage |-> ResponseTokens]

\* What one provider request can come back with: a transport error, a server
\* error, a 201 whose body is a final answer, or a 200 whose body does not
\* parse, has no choice, is a final answer, or carries one of callSeqs.
HttpResponses(callSeqs) ==
    {TransportError,
     HttpResponse(500, "garbage", <<>>),
     HttpResponse(201, "json", <<FinalChoice>>),
     HttpResponse(200, "garbage", <<>>),
     HttpResponse(200, "json", <<>>),
     HttpResponse(200, "json", <<FinalChoice>>)}
    \cup {HttpResponse(200, "json", <<ToolChoice(cs)>>) : cs \in callSeqs}

\* The responses of the registry specification
SupResponses(callSeqs) ==
    {TransportError, HttpResponse(200, "json", <<FinalChoice>>)}
    \cup {HttpResponse(200, "json", <<ToolChoice(cs)>>) : cs \in callSeqs}

NoResponse ==
    [transport |-> "none", status |-> 0, body |-> "", choices |-> <<>>, usage |-> 0]
\* What httpClient.Do returns once the context is cancelled
CtxCanceled == TransportError

\* body, _ := io.ReadAll(resp.Body) (agents.go:290) of a response whose
\* context is cancelled while the body is read: the read ends with the
\* context's error, which is dropped, and what was read is not a JSON value
CutShort(resp) == [resp EXCEPT !.body = "garbage", !.choices = <<>>]

\* Tool calls of the rich rounds: one or two calls, plain, failing, declined
RichCalls ==
    {<<[id |-> "call_1", name |-> "read_file", arguments |-> ArgsOk]>>,
     <<[id |-> "call_1", name |-> "read_file", arguments |-> ArgsMissing]>>,
     <<[id |-> "call_1", name |-> "read_file", arguments |-> ArgsMalformed]>>,
     <<[id |-> "call_1", name |-> "spawn_agent", arguments |-> ArgsOk]>>,
     <<[id |-> "call_1", name |-> "start_watch", arguments |-> ArgsOk]>>,
     <<[id |-> "call_1", name |-> "cancel_agent", arguments |-> ArgsOk],
       [id |-> "call_2", name |-> "read_file", arguments |-> ArgsOk]>>,
     <<[id |-> "call_1", name |-> "read_file", arguments |-> ArgsMissing],
       [id |-> "call_2", name |-> "wait_for_agent", arguments |-> ArgsOk]>>}

NoAgent == [Status |-> "", Result |-> "", Error |-> "", Done |-> FALSE, TokensUsed |-> 0]
\* resp is what httpClient.Do returned, while the goroutine reads the body
NoRun ==
    [pc |-> "none", i |-> 0, msgs |-> <<>>, calls |-> <<>>, k |-> 0, totalTokens |-> 0,
     resp |-> NoResponse]
\* usage adds up what the responses received have reported
NoHist == [calls |-> 0, execs |-> 0, resp |-> NoResponse, reqerr |-> FALSE, usage |-> 0,
           cancelReq |-> FALSE, offered |-> <<>>]
NoTask == [Status |-> "", Output |-> "", Error |-> "", Done |-> FALSE]
NoRet == [op |-> "", id |-> 0, err |-> "", msg |-> "", status |-> "",
          result |-> "", count |-> 0, pre |-> "", invoked |-> FALSE, done |-> FALSE,
          execs |-> 0, offered |-> <<>>,
          name |-> "", arguments |-> "", handler |-> "", lines |-> <<>>]
\* a handler called by its own name, not by ExecuteTool
NoVia == [name |-> "", arguments |-> ""]
Idle == [pc |-> "idle", op |-> "", id |-> 0, pre |-> "", invoked |-> FALSE,
         done |-> FALSE, via |-> NoVia]

Endpoints == {"", "https://llm.example/v1/chat", "%zz"}
\* http.NewRequestWithContext fails on a URL that does not parse
ValidURL(e) == e # "%zz"

InitAgents ==
    /\ agentConfig = [endpoint |-> "", apiKey |-> ""]
    /\ agentCounter = 0
    /\ agentTasks = {}
    /\ agents = [a \in AgentIds |-> NoAgent]
    /\ run = [a \in AgentIds |-> NoRun]
    /\ ctx = [a \in AgentIds |-> FALSE]
    /\ hist = [a \in AgentIds |-> NoHist]
    /\ issuedAgents = <<>>

InitTasks ==
    /\ taskCounter = 0
    /\ backgroundTasks = {}
    /\ tasks = [t \in TaskIds |-> NoTask]
    /\ taskRun = [t \in TaskIds |-> [pc |-> "none", ctx |-> FALSE, err |-> ""]]
    /\ issuedTasks = <<>>

InitCaller ==
    /\ caller = Idle
    /\ ret = NoRet

Failure(op, id, err) == [NoRet EXCEPT !.op = op, !.id = id, !.err = err]

(***************************************************************************)
(* agents.go: the registry operations.                                     *)
(***************************************************************************)
\* agents.go:44-49
InitAgentConfig(endpoint, apiKey) ==
    /\ caller.pc = "idle"
    /\ agentConfig' = [endpoint |-> endpoint, apiKey |-> apiKey]
    /\ UNCHANGED <<agentCounter, agentTasks, agents, run, ctx, hist, issuedAgents>>
    /\ UNCHANGED <<taskVars, callerVars>>
    /\ UNCHANGED <<queryVars, watchVars, otherVars>>

\* agents.go:178  agentCounter++
NextAgentCounter(counter) == counter + 1

\* agents.go:160-194
spawnAgent(task) ==
    /\ caller.pc = "idle"
    /\ IF task = ""
       THEN /\ ret' = Failure("spawn_agent", 0, "task required")
            /\ UNCHANGED <<agentVars, caller>>
       ELSE IF agentConfig.endpoint = "" \/ agentConfig.apiKey = ""
       THEN /\ ret' = Failure("spawn_agent", 0, "agent config not initialized")
            /\ UNCHANGED <<agentVars, caller>>
       ELSE LET n == NextAgentCounter(agentCounter) IN
            /\ n \in AgentIds
            /\ agentCounter' = n
            /\ agents' = [agents EXCEPT ![n] = [NoAgent EXCEPT !.Status = "running"]]
            /\ agentTasks' = agentTasks \cup {n}
            /\ ctx' = [ctx EXCEPT ![n] = FALSE]
            /\ run' = [run EXCEPT ![n] = [NoRun EXCEPT !.pc = "select"]]
            /\ hist' = [hist EXCEPT ![n] = NoHist]
            /\ issuedAgents' = Append(issuedAgents, AgentID(n))
            /\ ret' = [NoRet EXCEPT !.op = "spawn_agent", !.id = n, !.msg = "Spawned"]
            /\ UNCHANGED <<agentConfig, caller>>
    /\ UNCHANGED taskVars
    /\ UNCHANGED <<queryVars, watchVars, otherVars>>

\* What a goroutine writes into its agent under agentMutex before it returns
\* (agents.go:241-244, 283-286, 322-327, 365-369): only the exits with status
\* completed store the tokens
FinishWith(a, status, result, error, totalTokens) ==
    /\ agents' = [agents EXCEPT
                     ![a].Status = status, ![a].Result = result, ![a].Error = error,
                     ![a].TokensUsed = IF status = "completed" THEN totalTokens ELSE @]
    /\ run' = [run EXCEPT ![a].pc = "defer", ![a].totalTokens = totalTokens]

Finish(a, status, result, error) ==
    FinishWith(a, status, result, error, run[a].totalTokens)

\* agents.go:238-247: the cancellation check at the head of an iteration
runAgentCancelled(a) ==
    /\ run[a].pc = "select"
    /\ run[a].i < maxIterations
    /\ ctx[a]
    /\ Finish(a, "cancelled", "", "Cancelled by user")
    /\ UNCHANGED <<agentConfig, agentCounter, agentTasks, ctx, hist, issuedAgents>>
    /\ UNCHANGED <<taskVars, callerVars>>
    /\ UNCHANGED <<queryVars, watchVars, otherVars>>

\* agents.go:260-268: the request cannot be built
runAgentRequestError(a) ==
    /\ run[a].pc = "select"
    /\ run[a].i < maxIterations
    /\ ~ctx[a]
    /\ ~ValidURL(agentConfig.endpoint)
    /\ Finish(a, "failed", "", "parse error in URL")
    /\ hist' = [hist EXCEPT ![a].reqerr = TRUE]
    /\ UNCHANGED <<agentConfig, agentCounter, agentTasks, ctx, issuedAgents>>
    /\ UNCHANGED <<taskVars, callerVars>>
    /\ UNCHANGED <<queryVars, watchVars, otherVars>>

\* agents.go:249-281: the transcript goes out with the filtered tool list
runAgentSend(a) ==
    /\ run[a].pc = "select"
    /\ run[a].i < maxIterations
    /\ ~ctx[a]
    /\ ValidURL(agentConfig.endpoint)
    /\ run' = [run EXCEPT ![a].pc = "http"]
    /\ hist' = [hist EXCEPT ![a].calls = @ + 1,
                             ![a].offered = filterAgentTools(AvailableTools)]
    /\ UNCHANGED <<agentConfig, agentCounter, agentTasks, agents, ctx, issuedAgents>>
    /\ UNCHANGED <<taskVars, callerVars>>
    /\ UNCHANGED <<queryVars, watchVars, otherVars>>

\* The mutant of ResponseVerdict: a response without a choice ends the agent
\* as completed with an empty result.
ResponseVerdictNoChoiceOk(resp) ==
    IF resp.transport = "error"
    THEN [status |-> "failed", result |-> "", error |-> "transport error"]
    ELSE IF resp.status # 200
    THEN [status |-> "failed", result |-> "", error |-> "API error"]
    ELSE IF resp.body = "garbage"
    THEN [status |-> "failed", result |-> "", error |-> "Failed to parse API response"]
    ELSE IF Len(resp.choices) = 0
    THEN [status |-> "completed", result |-> "", error |-> ""]
    ELSE IF Len(resp.choices[1].tool_calls) = 0
    THEN [status |-> "completed", result |-> resp.choices[1].content, error |-> ""]
    ELSE [status |-> "running", result |-> "", error |-> ""]

\* agents.go:281-329: what runAgent makes of the outcome of httpClient.Do;
\* status "running" stands for going on to the tool calls
ResponseVerdict(resp) ==
    IF resp.transport = "error"
    THEN [status |-> "failed", result |-> "", error |-> "transport error"]
    ELSE IF resp.status # 200
    THEN [status |-> "failed", result |-> "", error |-> "API error"]
    ELSE IF resp.body = "garbage"
    THEN [status |-> "failed", result |-> "", error |-> "Failed to parse API response"]
    ELSE IF Len(resp.choices) = 0
    THEN [status |-> "failed", result |-> "", error |-> "No response choices"]
    ELSE IF Len(resp.choices[1].tool_calls) = 0
    THEN [status |-> "completed", result |-> resp.choices[1].content, error |-> ""]
    ELSE [status |-> "running", result |-> "", error |-> ""]

AssistantMsg(choice) ==
    [role |-> "assistant", tool_call_id |-> "", content |-> choice.content,
     tool_calls |-> choice.tool_calls]

ToolMsg(id, content) ==
    [role |-> "tool", tool_call_id |-> id, content |-> content, tool_calls |-> <<>>]

\* The mutant of CountedTokens: only the last response counts.
CountedTokensOfFinalAnswer(resp) ==
    IF resp.transport = "ok" /\ resp.status = 200 /\ resp.body # "garbage"
       /\ Len(resp.choices) > 0 /\ Len(resp.choices[1].tool_calls) = 0
    THEN resp.usage
    ELSE 0

\* agents.go:281-310: totalTokens += apiResp.Usage.TotalTokens, for a response
\* of status 200 whose body parses
CountedTokens(resp) ==
    IF resp.transport = "ok" /\ resp.status = 200 /\ resp.body # "garbage"
    THEN resp.usage
    ELSE 0

\* agents.go:281: httpClient.Do returns, with the context's error when the
\* context was cancelled.  The goroutine holds no lock.
runAgentReceive(a, r) ==
    /\ run[a].pc = "http"
    /\ run' = [run EXCEPT ![a].pc = "body",
                          ![a].resp = IF ctx[a] THEN CtxCanceled ELSE r]
    /\ UNCHANGED <<agentConfig, agentCounter, agentTasks, agents, ctx, hist, issuedAgents>>
    /\ UNCHANGED <<taskVars, callerVars>>
    /\ UNCHANGED <<queryVars, watchVars, otherVars>>

\* agents.go:282-338: the body is read, whole unless the context has been
\* cancelled since httpClient.Do returned, and the response is classified;
\* an exit stores the status under agentMutex, a response with tool calls
\* puts the assistant message into the transcript
runAgentResponse(a, whole) ==
    /\ run[a].pc = "body"
    /\ ~whole => ctx[a] /\ run[a].resp.transport = "ok"
    /\ LET resp == IF whole THEN run[a].resp ELSE CutShort(run[a].resp)
           v == ResponseVerdict(resp)
           totalTokens == run[a].totalTokens + CountedTokens(resp)
       IN /\ hist' = [hist EXCEPT ![a].resp = resp, ![a].usage = @ + resp.usage]
          /\ IF v.status # "running"
             THEN /\ agents' = [agents EXCEPT
                       ![a].Status = v.status, ![a].Result = v.result,
                       ![a].Error = v.error,
                       ![a].TokensUsed = IF v.status = "completed" THEN totalTokens
                                         ELSE @]
                  /\ run' = [run EXCEPT ![a].pc = "defer",
                                        ![a].totalTokens = totalTokens,
                                        ![a].resp = NoResponse]
             ELSE /\ run' = [run EXCEPT
                       ![a].pc = "tools",
                       ![a].totalTokens = totalTokens,
                       ![a].resp = NoResponse,
                       ![a].msgs = Append(@, AssistantMsg(resp.choices[1])),
                       ![a].calls = resp.choices[1].tool_calls,
                       ![a].k = 1]
                  /\ UNCHANGED agents
    /\ UNCHANGED <<agentConfig, agentCounter, agentTasks, ctx, issuedAgents>>
    /\ UNCHANGED <<taskVars, callerVars>>
    /\ UNCHANGED <<queryVars, watchVars, otherVars>>

\* The mutant of AgentToolResult: a failing tool call leaves no tool message.
AgentToolResultDropsFailure(tc) ==
    IF isAgentTool(tc.name)
    THEN [msgs |-> <<ToolMsg(tc.id, DeclineText)>>, executed |-> FALSE]
    ELSE LET res == ExecuteTool(Workstation, tc.name, tc.arguments) IN
         [msgs |-> IF res.err # "" THEN <<>> ELSE <<ToolMsg(tc.id, res.text)>>,
          executed |-> TRUE]

\* agents.go:341-361: the tool messages one call leaves in the transcript, and
\* whether ExecuteTool ran for it.  The calls of the responses of the model
\* name read_file or a tool that is not routed, whose values are the same in
\* every environment
AgentToolResult(tc) ==
    IF isAgentTool(tc.name)
    THEN [msgs |-> <<ToolMsg(tc.id, DeclineText)>>, executed |-> FALSE]
    ELSE LET res == ExecuteTool(Workstation, tc.name, tc.arguments) IN
         [msgs |-> <<ToolMsg(tc.id, IF res.err # "" THEN ErrorText(res.err)
                                                      ELSE res.text)>>,
          executed |-> TRUE]

\* agents.go:340-363: one tool call of the assistant message is answered; after
\* the last one the loop goes to its next iteration
runAgentTool(a) ==
    /\ run[a].pc = "tools"
    /\ LET tc == run[a].calls[run[a].k]
           out == AgentToolResult(tc)
           last == run[a].k = Len(run[a].calls)
       IN /\ run' = [run EXCEPT
                ![a].msgs = @ \o out.msgs,
                ![a].k = IF last THEN 0 ELSE @ + 1,
                ![a].calls = IF last THEN <<>> ELSE @,
                ![a].i = IF last THEN @ + 1 ELSE @,
                ![a].pc = IF last THEN "select" ELSE "tools"]
          /\ hist' = [hist EXCEPT ![a].execs = IF out.executed THEN @ + 1 ELSE @]
    /\ UNCHANGED <<agentConfig, agentCounter, agentTasks, agents, ctx, issuedAgents>>
    /\ UNCHANGED <<taskVars, callerVars>>
    /\ UNCHANGED <<queryVars, watchVars, otherVars>>

\* The mutant of runAgentMaxIterations: running out of iterations is a failure.
runAgentMaxIterationsFails(a) ==
    /\ run[a].pc = "select"
    /\ run[a].i >= maxIterations
    /\ Finish(a, "failed", "", MaxIterText)
    /\ UNCHANGED <<agentConfig, agentCounter, agentTasks, ctx, hist, issuedAgents>>
    /\ UNCHANGED <<taskVars, callerVars>>
    /\ UNCHANGED <<queryVars, watchVars, otherVars>>

\* agents.go:365-369: the loop ran out of iterations
runAgentMaxIterations(a) ==
    /\ run[a].pc = "select"
    /\ run[a].i >= maxIterations
    /\ Finish(a, "completed", MaxIterText, "")
    /\ UNCHANGED <<agentConfig, agentCounter, agentTasks, ctx, hist, issuedAgents>>
    /\ UNCHANGED <<taskVars, callerVars>>
    /\ UNCHANGED <<queryVars, watchVars, otherVars>>

\* agents.go:204-209: the deferred function
runAgentDeferred(a) ==
    /\ run[a].pc = "defer"
    /\ agents' = [agents EXCEPT ![a].Done = TRUE]
    /\ run' = [run EXCEPT ![a].pc = "done"]
    /\ UNCHANGED <<agentConfig, agentCounter, agentTasks, ctx, hist, issuedAgents>>
    /\ UNCHANGED <<taskVars, callerVars>>
    /\ UNCHANGED <<queryVars, watchVars, otherVars>>

\* What getAgentResult prints of an agent (agents.go:432-451): the status
\* line, from the status that was read for it, and then the lines of a
\* finished agent or the 'Running for' line, by the Done flag
AgentReport(a, status) ==
    [NoRet EXCEPT !.op = "get_agent_result", !.id = a,
                  !.status = status,
                  !.msg = IF agents[a].Done THEN "Duration" ELSE "Running for",
                  !.err = "",
                  !.result = IF agents[a].Done THEN agents[a].Result ELSE ""]

\* agents.go:418-436: the lookup under the read lock, and the header lines
\* with the status, read from the struct after the unlock.  The caller keeps
\* the status it read, and whether the agent was done when the call began.
getAgentResult(id) ==
    /\ caller.pc = "idle"
    /\ IF id = 0
       THEN /\ ret' = Failure("get_agent_result", id, "agent_id required")
            /\ UNCHANGED caller
       ELSE IF id \notin agentTasks
       THEN /\ ret' = Failure("get_agent_result", id, "not found")
            /\ UNCHANGED caller
       ELSE /\ ret' = NoRet
            /\ caller' = [Idle EXCEPT !.pc = "get_return", !.op = "get_agent_result",
                                      !.id = id, !.pre = agents[id].Status,
                                      !.done = agents[id].Done]
    /\ UNCHANGED <<agentVars, taskVars>>
    /\ UNCHANGED <<queryVars, watchVars, otherVars>>

\* agents.go:438-451: the Done flag is read, without the lock, and the rest of
\* the report is written by it; waitForAgent returns what getAgentResult
\* returns (agents.go:479)
getAgentResultReturn ==
    /\ caller.pc = "get_return"
    /\ ret' = [AgentReport(caller.id, caller.pre) EXCEPT !.op = caller.op,
                                                        !.done = caller.done]
    /\ caller' = Idle
    /\ UNCHANGED <<agentVars, taskVars>>
    /\ UNCHANGED <<queryVars, watchVars, otherVars>>

\* agents.go:454-467: the call, up to the first test of the deadline
waitForAgent(id, timeout) ==
    /\ caller.pc = "idle"
    /\ IF id = 0
       THEN /\ ret' = Failure("wait_for_agent", id, "agent_id required")
            /\ UNCHANGED <<caller, hist>>
       ELSE IF timeout <= 0
       THEN /\ ret' = Failure("wait_for_agent", id, "timeout")
            /\ UNCHANGED <<caller, hist>>
       ELSE /\ ret' = NoRet
            /\ caller' = [Idle EXCEPT !.pc = "wait_poll", !.op = "wait_for_agent",
                                      !.id = id]
            /\ UNCHANGED hist
    /\ UNCHANGED <<agentConfig, agentCounter, agentTasks, agents, run, ctx, issuedAgents>>
    /\ UNCHANGED taskVars
    /\ UNCHANGED <<queryVars, watchVars, otherVars>>

\* agents.go:469-482: one poll under the read lock; the lock is released
\* before getAgentResult is called for an agent that is done
waitForAgentPoll ==
    /\ caller.pc = "wait_poll"
    /\ IF caller.id \notin agentTasks
       THEN /\ ret' = Failure("wait_for_agent", caller.id, "not found")
            /\ caller' = Idle
       ELSE IF agents[caller.id].Done
       THEN /\ caller' = [caller EXCEPT !.pc = "wait_result"]
            /\ UNCHANGED ret
       ELSE /\ caller' = [caller EXCEPT !.pc = "wait_sleep"]
            /\ UNCHANGED ret
    /\ UNCHANGED <<agentVars, taskVars>>
    /\ UNCHANGED <<queryVars, watchVars, otherVars>>

\* agents.go:478-480 and 418-436: the call of getAgentResult by waitForAgent, its
\* own lookup under the read lock and the status read after the unlock
waitForAgentResult ==
    /\ caller.pc = "wait_result"
    /\ IF caller.id \notin agentTasks
       THEN /\ ret' = Failure("wait_for_agent", caller.id, "not found")
            /\ caller' = Idle
       ELSE /\ caller' = [caller EXCEPT !.pc = "get_return",
                                        !.pre = agents[caller.id].Status,
                                        !.done = agents[caller.id].Done]
            /\ UNCHANGED ret
    /\ UNCHANGED <<agentVars, taskVars>>
    /\ UNCHANGED <<queryVars, watchVars, otherVars>>

\* agents.go:468: the sleep is over and the deadline has not passed
waitForAgentAgain ==
    /\ caller.pc = "wait_sleep"
    /\ caller' = [caller EXCEPT !.pc = "wait_poll"]
    /\ UNCHANGED <<agentVars, taskVars, ret>>
    /\ UNCHANGED <<queryVars, watchVars, otherVars>>

\* The mutant of waitForAgentTimeout: the agent is cancelled on a timeout.
waitForAgentTimeoutCancels ==
    /\ caller.pc = "wait_sleep"
    /\ ret' = Failure("wait_for_agent", caller.id, "timeout")
    /\ ctx' = [ctx EXCEPT ![caller.id] = TRUE]
    /\ caller' = Idle
    /\ UNCHANGED <<agentConfig, agentCounter, agentTasks, agents, run, hist, issuedAgents>>
    /\ UNCHANGED taskVars
    /\ UNCHANGED <<queryVars, watchVars, otherVars>>

\* agents.go:468,485: the sleep is over and the deadline has passed
waitForAgentTimeout ==
    /\ caller.pc = "wait_sleep"
    /\ ret' = Failure("wait_for_agent", caller.id, "timeout")
    /\ caller' = Idle
    /\ UNCHANGED <<agentVars>>
    /\ UNCHANGED taskVars
    /\ UNCHANGED <<queryVars, watchVars, otherVars>>

\* The mutant of cancelAgent: the call itself marks the agent as cancelled.
cancelAgentMarks(id) ==
    /\ caller.pc = "idle"
    /\ IF id = 0
       THEN /\ ret' = Failure("cancel_agent", id, "agent_id required")
            /\ UNCHANGED <<caller, ctx, hist, agents>>
       ELSE IF id \notin agentTasks
       THEN /\ ret' = Failure("cancel_agent", id, "not found")
            /\ UNCHANGED <<caller, ctx, hist, agents>>
       ELSE /\ ret' = NoRet
            /\ ctx' = [ctx EXCEPT ![id] = @ \/ ~agents[id].Done]
            /\ agents' = [agents EXCEPT ![id].Status =
                              IF agents[id].Done THEN @ ELSE "cancelled"]
            /\ hist' = [hist EXCEPT ![id].cancelReq =
                            @ \/ (~agents[id].Done /\ agents[id].Status = "running")]
            /\ caller' = [pc |-> "cancel_return", op |-> "cancel_agent", id |-> id,
                          pre |-> agents[id].Status, invoked |-> ~agents[id].Done,
                          done |-> FALSE, via |-> NoVia]
    /\ UNCHANGED <<agentConfig, agentCounter, agentTasks, run, issuedAgents>>
    /\ UNCHANGED taskVars
    /\ UNCHANGED <<queryVars, watchVars, otherVars>>

\* agents.go:488-503: the critical section of cancelAgent
cancelAgent(id) ==
    /\ caller.pc = "idle"
    /\ IF id = 0
       THEN /\ ret' = Failure("cancel_agent", id, "agent_id required")
            /\ UNCHANGED <<caller, ctx, hist>>
       ELSE IF id \notin agentTasks
       THEN /\ ret' = Failure("cancel_agent", id, "not found")
            /\ UNCHANGED <<caller, ctx, hist>>
       ELSE /\ ret' = NoRet
            /\ ctx' = [ctx EXCEPT ![id] = @ \/ ~agents[id].Done]
            /\ hist' = [hist EXCEPT ![id].cancelReq =
                            @ \/ (~agents[id].Done /\ agents[id].Status = "running")]
            /\ caller' = [pc |-> "cancel_return", op |-> "cancel_agent", id |-> id,
                          pre |-> agents[id].Status, invoked |-> ~agents[id].Done,
                          done |-> FALSE, via |-> NoVia]
    /\ UNCHANGED <<agentConfig, agentCounter, agentTasks, agents, run, issuedAgents>>
    /\ UNCHANGED taskVars
    /\ UNCHANGED <<queryVars, watchVars, otherVars>>

\* agents.go:505-509: the answer, from fields read after the unlock
cancelAgentReturn ==
    /\ caller.pc = "cancel_return"
    /\ ret' = [NoRet EXCEPT
                 !.op = "cancel_agent", !.id = caller.id,
                 !.msg = IF agents[caller.id].Done THEN "already finished with status"
                                                   ELSE "cancelled",
                 !.status = IF agents[caller.id].Done THEN agents[caller.id].Status
                                                      ELSE "",
                 !.pre = caller.pre, !.invoked = caller.invoked]
    /\ caller' = Idle
    /\ UNCHANGED <<agentVars, taskVars>>
    /\ UNCHANGED <<queryVars, watchVars, otherVars>>

\* The mutant of ClearCompletedAgents: the counter is wound back to the number
\* of agents that stay registered.
ClearCompletedAgentsRewinds ==
    /\ LET cleared == {a \in agentTasks : agents[a].Done} IN
       /\ agentTasks' = agentTasks \ cleared
       /\ agentCounter' = Cardinality(agentTasks \ cleared)
       /\ ret' = [NoRet EXCEPT !.op = "clear_agents", !.count = Cardinality(cleared)]
    /\ UNCHANGED <<agentConfig, agents, run, ctx, hist, issuedAgents>>
    /\ UNCHANGED <<taskVars, caller>>
    /\ UNCHANGED <<queryVars, watchVars, otherVars>>

\* The mutant of ClearCompletedAgents: the agents are chosen by their status,
\* which a goroutine stores before its deferred function sets Done.
ClearCompletedAgentsByStatus ==
    /\ LET cleared == {a \in agentTasks : agents[a].Status # "running"} IN
       /\ agentTasks' = agentTasks \ cleared
       /\ ret' = [NoRet EXCEPT !.op = "clear_agents", !.count = Cardinality(cleared)]
    /\ UNCHANGED <<agentConfig, agentCounter, agents, run, ctx, hist, issuedAgents>>
    /\ UNCHANGED <<taskVars, caller>>
    /\ UNCHANGED <<queryVars, watchVars, otherVars>>

\* agents.go:525-537: a public function, called on any thread, whatever the
\* caller of the tools is doing
ClearCompletedAgents ==
    /\ LET cleared == {a \in agentTasks : agents[a].Done} IN
       /\ agentTasks' = agentTasks \ cleared
       /\ ret' = [NoRet EXCEPT !.op = "clear_agents", !.count = Cardinality(cleared)]
    /\ UNCHANGED <<agentConfig, agentCounter, agents, run, ctx, hist, issuedAgents>>
    /\ UNCHANGED <<taskVars, caller>>
    /\ UNCHANGED <<queryVars, watchVars, otherVars>>

\* agents.go:512-523: the agents of the map whose Done is not set, counted
\* under the read lock, on any thread
GetActiveAgentCount ==
    /\ ret' = [NoRet EXCEPT !.op = "active_count",
                            !.count = Cardinality({a \in agentTasks : ~agents[a].Done})]
    /\ UNCHANGED <<agentVars, taskVars, caller>>
    /\ UNCHANGED <<queryVars, watchVars, otherVars>>

(***************************************************************************)
(* tools.go: background commands.                                          *)
(***************************************************************************)
\* tools.go:1006  taskCounter++
NextTaskCounter(counter) == counter + 1

\* taskMutex is held by the goroutine of a command that is in the middle of
\* its critical section (tools.go:1022-1035, 333-343)
taskMutexHeld == \E t \in TaskIds : taskRun[t].pc = "status"

\* What ExecuteTool returns of a handler's value r (tools.go:808-815): the
\* text and the error; r itself when the handler is called by its own name
ViaExecuteTool(r, via, handler) ==
    IF via = NoVia THEN r
    ELSE [r EXCEPT !.op = "execute_tool", !.name = via.name,
                   !.arguments = via.arguments, !.handler = handler,
                   !.result = IF r.err # "" THEN ""
                              ELSE IF r.result # "" THEN r.result ELSE r.msg]

\* tools.go:985-1017, 1038: the call of runBackground
runBackgroundVia(hasCommand, via) ==
    /\ caller.pc = "idle"
    /\ hasCommand => ~taskMutexHeld
    /\ IF ~hasCommand
       THEN /\ ret' = ViaExecuteTool(Failure("run_background", 0, "command required"),
                                     via, "runBackground")
            /\ UNCHANGED taskVars
       ELSE LET n == NextTaskCounter(taskCounter) IN
            /\ n \in TaskIds
            /\ taskCounter' = n
            /\ tasks' = [tasks EXCEPT ![n] = [NoTask EXCEPT !.Status = "running"]]
            /\ backgroundTasks' = backgroundTasks \cup {n}
            /\ taskRun' = [taskRun EXCEPT ![n] = [pc |-> "running", ctx |-> FALSE,
                                                  err |-> ""]]
            /\ issuedTasks' = Append(issuedTasks, TaskID(n))
            /\ ret' = ViaExecuteTool([NoRet EXCEPT !.op = "run_background", !.id = n,
                                                   !.msg = "Started background task"],
                                     via, "runBackground")
    /\ UNCHANGED <<agentVars, caller>>
    /\ UNCHANGED <<queryVars, watchVars, otherVars>>

\* runBackground called by its own name
runBackground(hasCommand) == runBackgroundVia(hasCommand, NoVia)

\* tools.go:1026-1034: the status the goroutine gives the command
TaskVerdict(cancelled, exitErr) ==
    IF cancelled
    THEN [status |-> "killed", error |-> "Killed by user"]
    ELSE IF exitErr # ""
    THEN [status |-> "failed", error |-> exitErr]
    ELSE [status |-> "completed", error |-> ""]

\* tools.go:1019-1025: the goroutine of a command; CombinedOutput returns when
\* the process exits or the cancelled context has killed it, the goroutine
\* takes taskMutex and stores the output and Done
runBackgroundExit(t, exitErr) ==
    /\ taskRun[t].pc = "running"
    /\ ~taskMutexHeld
    /\ tasks' = [tasks EXCEPT ![t].Output = "output", ![t].Done = TRUE]
    /\ taskRun' = [taskRun EXCEPT
                      ![t].pc = "status",
                      ![t].err = IF taskRun[t].ctx THEN "signal: killed" ELSE exitErr]
    /\ UNCHANGED <<taskCounter, backgroundTasks, issuedTasks>>
    /\ UNCHANGED <<agentVars, callerVars>>
    /\ UNCHANGED <<queryVars, watchVars, otherVars>>

\* tools.go:1026-1035: still under taskMutex, the goroutine stores the status
\* and the error after Done; a caller that reads the fields without the lock
\* (tools.go:1055-1074, 1115-1116) may read between the two stores
runBackgroundStatus(t) ==
    /\ taskRun[t].pc = "status"
    /\ LET v == TaskVerdict(taskRun[t].ctx, taskRun[t].err)
       IN tasks' = [tasks EXCEPT ![t].Status = v.status, ![t].Error = v.error]
    /\ taskRun' = [taskRun EXCEPT ![t].pc = "done"]
    /\ UNCHANGED <<taskCounter, backgroundTasks, issuedTasks>>
    /\ UNCHANGED <<agentVars, callerVars>>
    /\ UNCHANGED <<queryVars, watchVars, otherVars>>

\* tools.go:1041-1058: the lookup under the read lock, and the header lines
\* with the status, read from the struct after the unlock
checkTaskVia(id, via) ==
    /\ caller.pc = "idle"
    /\ id # 0 => ~taskMutexHeld
    /\ IF id = 0
       THEN /\ ret' = ViaExecuteTool(Failure("check_task", id, "task_id required"),
                                     via, "checkTask")
            /\ UNCHANGED caller
       ELSE IF id \notin backgroundTasks
       THEN /\ ret' = ViaExecuteTool(Failure("check_task", id, "not found"),
                                     via, "checkTask")
            /\ UNCHANGED caller
       ELSE /\ ret' = NoRet
            /\ caller' = [Idle EXCEPT !.pc = "check_return", !.op = "check_task",
                                      !.id = id, !.pre = tasks[id].Status,
                                      !.done = tasks[id].Done, !.via = via]
    /\ UNCHANGED <<agentVars, taskVars>>
    /\ UNCHANGED <<queryVars, watchVars, otherVars>>

\* checkTask called by its own name
checkTask(id) == checkTaskVia(id, NoVia)

\* tools.go:1060-1074: the Done flag is read, without the lock, and the rest
\* of the report is written by it
checkTaskReturn ==
    /\ caller.pc = "check_return"
    /\ ret' = ViaExecuteTool(
                [NoRet EXCEPT
                   !.op = "check_task", !.id = caller.id, !.status = caller.pre,
                   !.msg = IF tasks[caller.id].Done THEN "Ended" ELSE "Running for",
                   !.result = IF tasks[caller.id].Done THEN tasks[caller.id].Output
                              ELSE "",
                   !.done = caller.done],
                caller.via, "checkTask")
    /\ caller' = Idle
    /\ UNCHANGED <<agentVars, taskVars>>
    /\ UNCHANGED <<queryVars, watchVars, otherVars>>

\* tools.go:1098-1112: the critical section of killTask
killTaskVia(id, via) ==
    /\ caller.pc = "idle"
    /\ id # 0 => ~taskMutexHeld
    /\ IF id = 0
       THEN /\ ret' = ViaExecuteTool(Failure("kill_task", id, "task_id required"),
                                     via, "killTask")
            /\ UNCHANGED <<caller, taskRun>>
       ELSE IF id \notin backgroundTasks
       THEN /\ ret' = ViaExecuteTool(Failure("kill_task", id, "not found"),
                                     via, "killTask")
            /\ UNCHANGED <<caller, taskRun>>
       ELSE /\ ret' = NoRet
            /\ taskRun' = [taskRun EXCEPT ![id].ctx = @ \/ ~tasks[id].Done]
            /\ caller' = [pc |-> "kill_return", op |-> "kill_task", id |-> id,
                          pre |-> tasks[id].Status, invoked |-> ~tasks[id].Done,
                          done |-> FALSE, via |-> via]
    /\ UNCHANGED <<taskCounter, backgroundTasks, tasks, issuedTasks>>
    /\ UNCHANGED agentVars
    /\ UNCHANGED <<queryVars, watchVars, otherVars>>

\* killTask called by its own name
killTask(id) == killTaskVia(id, NoVia)

\* tools.go:1114-1119: the answer, from fields read after the unlock
killTaskReturn ==
    /\ caller.pc = "kill_return"
    /\ ret' = ViaExecuteTool(
                [NoRet EXCEPT
                   !.op = "kill_task", !.id = caller.id,
                   !.msg = IF tasks[caller.id].Done THEN "already finished with status"
                                                    ELSE "killed",
                   !.status = IF tasks[caller.id].Done THEN tasks[caller.id].Status
                                                       ELSE "",
                   !.pre = caller.pre, !.invoked = caller.invoked],
                caller.via, "killTask")
    /\ caller' = Idle
    /\ UNCHANGED <<agentVars, taskVars>>
    /\ UNCHANGED <<queryVars, watchVars, otherVars>>

(***************************************************************************)
(* tools.go, the first definition of the background commands               *)
(* (tools.go:301-427): no context, the command is not killed.  The call of *)
(* runBackground registers the task as the second definition does.         *)
(***************************************************************************)
\* tools.go:337-342: the status the goroutine gives the command
TaskVerdictV1(exitErr) ==
    IF exitErr # ""
    THEN [status |-> "failed", error |-> exitErr]
    ELSE [status |-> "completed", error |-> ""]

\* tools.go:324-335: the goroutine of a command takes taskMutex when the
\* process exits and stores the output and Done, whatever the task holds by
\* then
runBackgroundExitV1(t, exitErr) ==
    /\ taskRun[t].pc = "running"
    /\ ~taskMutexHeld
    /\ tasks' = [tasks EXCEPT ![t].Output = "output", ![t].Done = TRUE]
    /\ taskRun' = [taskRun EXCEPT ![t].pc = "status", ![t].err = exitErr]
    /\ UNCHANGED <<taskCounter, backgroundTasks, issuedTasks>>
    /\ UNCHANGED <<agentVars, callerVars>>
    /\ UNCHANGED <<queryVars, watchVars, otherVars>>

\* tools.go:336-343: still under taskMutex, the status and the error
runBackgroundStatusV1(t) ==
    /\ taskRun[t].pc = "status"
    /\ LET v == TaskVerdictV1(taskRun[t].err)
       IN tasks' = [tasks EXCEPT ![t].Status = v.status,
                                 ![t].Error = IF taskRun[t].err # "" THEN v.error ELSE @]
    /\ taskRun' = [taskRun EXCEPT ![t].pc = "done"]
    /\ UNCHANGED <<taskCounter, backgroundTasks, issuedTasks>>
    /\ UNCHANGED <<agentVars, callerVars>>
    /\ UNCHANGED <<queryVars, watchVars, otherVars>>

\* tools.go:406-427: killTask marks the task; the process and its goroutine
\* are left alone
killTaskV1(id) ==
    /\ caller.pc = "idle"
    /\ id # 0 => ~taskMutexHeld
    /\ IF id = 0
       THEN /\ ret' = Failure("kill_task", id, "task_id required")
            /\ UNCHANGED tasks
       ELSE IF id \notin backgroundTasks
       THEN /\ ret' = Failure("kill_task", id, "not found")
            /\ UNCHANGED tasks
       ELSE /\ ret' = [NoRet EXCEPT !.op = "kill_task", !.id = id,
                                    !.msg = "marked as killed",
                                    !.pre = tasks[id].Status,
                                    !.invoked = ~tasks[id].Done]
            /\ tasks' = IF tasks[id].Done THEN tasks
                        ELSE [tasks EXCEPT ![id].Status = "killed", ![id].Done = TRUE,
                                           ![id].Error = "Killed by user"]
    /\ UNCHANGED <<taskCounter, backgroundTasks, taskRun, issuedTasks>>
    /\ UNCHANGED <<agentVars, caller>>
    /\ UNCHANGED <<queryVars, watchVars, otherVars>>

(***************************************************************************)
(* llm.go: the top-level tool-calling loop, run by the caller's thread.    *)
(***************************************************************************)
PlainMsg(role, content) ==
    [role |-> role, tool_call_id |-> "", content |-> content, tool_calls |-> <<>>]

\* sent, offered and execs record the requests that went out, the Tools of the
\* last payload and the calls of ExecuteTool
NoQuery == [pc |-> "none", i |-> 0, msgs |-> <<>>, calls |-> <<>>, k |-> 0, sent |-> 0,
            offered |-> <<>>, execs |-> 0]

\* The prompt of a ModelConfig: one system message
SystemPrompt == "You are a terminal assistant"
\* llm.go:37-45: the environment, written behind the system message
EnvText == "\n\nEnvironment: linux\nShell: bash\nWorking Directory: /work/app"

InitQuery ==
    /\ qmsgs = <<PlainMsg("system", SystemPrompt \o EnvText)>>
    /\ q = NoQuery

UserMessages == {j \in DOMAIN qmsgs : qmsgs[j].role = "user"}

\* Endpoints of a ModelConfig
EndpointOpenAI == "https://llm.example/v1/chat"
EndpointLocal == "http://localhost:11434/api/chat"
EndpointCloud == "https://ollama.com/api/chat"
EndpointAzure == "https://res.openai.azure.com/openai/chat"
\* an endpoint http.NewRequest refuses (ValidURL)
EndpointUnparsable == "%zz"

\* strings.Contains(endpoint, part), on the endpoints and parts of the model
EndpointContains(endpoint, part) ==
    <<endpoint, part>> \in {<<EndpointLocal, "11434">>,
                           <<EndpointCloud, "ollama.com/api">>,
                           <<EndpointAzure, "openai.azure.com">>}

\* The ModelConfig the client of the initial state was made with
DefaultConfig ==
    [Provider |-> "openai", Endpoint |-> EndpointOpenAI, Auth |-> "sk-key",
     AuthHeader |-> ""]

\* A row of sessions as CreateSession inserts it (db.go:64-82), with its
\* messages; title and summary are NULL
NewSession(id) == [id |-> id, msgs |-> <<>>, title |-> "", summary |-> ""]

\* The client of the initial state was made over an empty database, which
\* has its session since.  The sessions of the database are kept in the
\* order of their updated_at, the oldest first; the clock is UTC and no two
\* statements fall into the same second
InitClient ==
    /\ llmConfig = DefaultConfig
    /\ client = [db |-> TRUE, sessionID |-> 1, initialPromptLen |-> 1]
    /\ memoryDB = [issued |-> 1, sessions |-> <<NewSession(1)>>]

\* llm.go:81, 90: the sessions and the messages loadContextualMemory reads
MemorySessions == 5
MemoryMessages == 10
\* llm.go:104: the length a message is cut to
MemoryWidth == 200

\* truncate (llm.go:115-120)
truncate(s, maxLen) == IF Len(s) <= maxLen THEN s ELSE SubSeq(s, 1, maxLen) \o "..."

\* The first n elements of a sequence, all of a shorter one
FirstN(s, n) == IF Len(s) <= n THEN s ELSE SubSeq(s, 1, n)

\* GetRecentSessions (db.go:98-127), for the one project path of the model:
\* the sessions by descending updated_at, cut by LIMIT
GetRecentSessions(db, limit) ==
    LET n == Len(db.sessions)
    IN FirstN([i \in 1..n |-> db.sessions[n + 1 - i]], limit)

\* llm.go:91-107: the user and assistant messages of the sessions other than
\* the client's own, in the order they are read
RECURSIVE RecalledMessages(_, _)
RecalledMessages(sessions, own) ==
    IF sessions = <<>> THEN <<>>
    ELSE (IF Head(sessions).id = own THEN <<>>
          ELSE SelectSeq(Head(sessions).msgs,
                         LAMBDA m : m.role \in {"user", "assistant"}))
         \o RecalledMessages(Tail(sessions), own)

\* llm.go:104: the lines of the messages
RECURSIVE MemoryLines(_)
MemoryLines(msgs) ==
    IF msgs = <<>> THEN ""
    ELSE "- " \o Head(msgs).role \o ": " \o truncate(Head(msgs).content, MemoryWidth)
         \o "\n" \o MemoryLines(Tail(msgs))

\* loadContextualMemory (llm.go:76-113): the conversation msgs of a client
\* with a database, after the messages of the recent sessions of the directory
\* have been written behind its first message
loadContextualMemory(msgs, db, own) ==
    LET added == FirstN(RecalledMessages(GetRecentSessions(db, MemorySessions), own),
                        MemoryMessages)
    IN IF added # <<>> /\ msgs # <<>>
       THEN [msgs EXCEPT ![1].content =
                 @ \o "\n\n[Previous conversations in this directory:]\n"
                   \o MemoryLines(added)]
       ELSE msgs

\* saveMessage (llm.go:122-128), AddMessage (db.go:138-160): the message is
\* inserted for the session of the client; the insert fails, and the error is
\* dropped, when the session is no longer there (messages.session_id
\* references sessions, schema.sql:22-31)
saveMessage(db, cl, role, content) ==
    IF ~cl.db \/ cl.sessionID = 0 THEN db
    ELSE [db EXCEPT !.sessions =
             [i \in DOMAIN db.sessions |->
                 IF db.sessions[i].id = cl.sessionID
                 THEN [db.sessions[i] EXCEPT
                          !.msgs = Append(@, [role |-> role, content |-> content])]
                 ELSE db.sessions[i]]]

\* DeleteSession (db.go:349-352): the session goes, and its messages with it
DeleteSession(db, id) ==
    [db EXCEPT !.sessions = SelectSeq(db.sessions, LAMBDA s : s.id # id)]

\* UPDATE sessions SET field = text WHERE id = ? (db.go:129-137): the trigger
\* sessions_updated_at (schema.sql:160-164) sets updated_at of the row to the
\* time of the statement, which makes it the most recent session; an id
\* without a row changes nothing
UpdateSession(db, id, field, text) ==
    LET hit == SelectSeq(db.sessions, LAMBDA s : s.id = id)
        rest == SelectSeq(db.sessions, LAMBDA s : s.id # id)
    IN [db EXCEPT !.sessions =
           rest \o [i \in DOMAIN hit |-> [hit[i] EXCEPT ![field] = text]]]

\* llm.go:140-142
isOllamaCloud(cfg) ==
    cfg.Provider = "ollama-cloud" \/ EndpointContains(cfg.Endpoint, "ollama.com/api")

\* llm.go:144-146
isOllamaLocal(cfg) == EndpointContains(cfg.Endpoint, "11434")

\* The mutant of supportsTools: only the local Ollama is left without tools.
supportsToolsButLocal(cfg) == ~isOllamaLocal(cfg)

\* llm.go:148-150
supportsTools(cfg) == ~isOllamaLocal(cfg) /\ ~isOllamaCloud(cfg)

\* llm.go:225-237: Query appends the user message and enters queryWithTools,
\* queryOllama or queryOpenAI
Query(text, limit) ==
    /\ caller.pc = "idle"
    /\ Cardinality(UserMessages) < limit
    /\ qmsgs' = Append(qmsgs, PlainMsg("user", text))
    /\ q' = [NoQuery EXCEPT !.pc = IF supportsTools(llmConfig) THEN "send"
                                   ELSE IF isOllamaCloud(llmConfig) \/ isOllamaLocal(llmConfig)
                                   THEN "ollama_send"
                                   ELSE "openai_send"]
    /\ caller' = [Idle EXCEPT !.pc = "query", !.op = "query"]
    /\ ret' = NoRet
    /\ UNCHANGED <<agentVars, taskVars, watchVars, otherVars>>

\* llm.go:273-306: what queryWithTools makes of the outcome of httpClient.Do;
\* status "running" stands for going on to the tool calls
QueryVerdict(resp) ==
    IF resp.transport = "error"
    THEN [status |-> "failed", result |-> "", error |-> "failed to make API request"]
    ELSE IF resp.status # 200
    THEN [status |-> "failed", result |-> "", error |-> "API request failed"]
    ELSE IF resp.body = "garbage"
    THEN [status |-> "failed", result |-> "", error |-> "failed to parse response"]
    ELSE IF Len(resp.choices) = 0
    THEN [status |-> "failed", result |-> "", error |-> "no choices in response"]
    ELSE IF Len(resp.choices[1].tool_calls) = 0
    THEN [status |-> "completed", result |-> resp.choices[1].content, error |-> ""]
    ELSE [status |-> "running", result |-> "", error |-> ""]

\* llm.go:234-246: Query hands the outcome of queryWithTools to its caller;
\* after a success it saves the query, which is the last message of the
\* conversation, and the answer
QueryReturn(v) ==
    /\ qmsgs' = IF v.error = "" THEN Append(qmsgs, PlainMsg("assistant", v.result))
                ELSE qmsgs
    /\ memoryDB' = IF v.error = ""
                   THEN saveMessage(saveMessage(memoryDB, client, "user",
                                                qmsgs[Len(qmsgs)].content),
                                    client, "assistant", v.result)
                   ELSE memoryDB
    /\ ret' = [NoRet EXCEPT !.op = "query", !.err = v.error, !.result = v.result,
                             !.count = q.sent, !.execs = q.execs,
                             !.offered = q.offered]
    /\ q' = NoQuery
    /\ caller' = Idle

\* llm.go:196-199: the error createRequest returns for an endpoint
\* http.NewRequest refuses
CreateRequestError ==
    [status |-> "failed", result |-> "", error |-> "failed to create request"]

\* llm.go:252-275: the conversation and the tool messages go out; on the
\* error of createRequest queryWithTools returns it and nothing goes out
querySend ==
    /\ q.pc = "send"
    /\ q.i < queryMaxIterations
    /\ IF ValidURL(llmConfig.Endpoint)
       THEN /\ q' = [q EXCEPT !.pc = "http", !.sent = @ + 1, !.offered = AvailableTools]
            /\ UNCHANGED <<qmsgs, callerVars, memoryDB>>
       ELSE QueryReturn(CreateRequestError)
    /\ UNCHANGED <<agentVars, taskVars, watchVars, llmConfig, client, netVars, pureVars>>

\* llm.go:273-314: the response is classified and, when it carries tool calls,
\* the assistant message is appended to the tool messages
queryReceive(resp) ==
    /\ q.pc = "http"
    /\ LET v == QueryVerdict(resp) IN
       IF v.status # "running"
       THEN QueryReturn(v)
       ELSE /\ q' = [q EXCEPT !.pc = "tools",
                              !.msgs = Append(@, AssistantMsg(resp.choices[1])),
                              !.calls = resp.choices[1].tool_calls,
                              !.k = 1]
            /\ UNCHANGED <<qmsgs, callerVars, memoryDB>>
    /\ UNCHANGED <<agentVars, taskVars, watchVars, llmConfig, client, netVars, pureVars>>

\* llm.go:322-332: the tool message one call leaves in the tool messages
QueryToolResult(tc) ==
    LET res == ExecuteTool(Workstation, tc.name, tc.arguments) IN
    <<ToolMsg(tc.id, IF res.err # "" THEN ErrorText(res.err) ELSE res.text)>>

\* llm.go:316-333: one tool call of the assistant message is answered
queryTool ==
    /\ q.pc = "tools"
    /\ LET tc == q.calls[q.k]
           last == q.k = Len(q.calls)
       IN q' = [q EXCEPT !.msgs = @ \o QueryToolResult(tc),
                         !.execs = @ + 1,
                         !.k = IF last THEN 0 ELSE @ + 1,
                         !.calls = IF last THEN <<>> ELSE @,
                         !.i = IF last THEN @ + 1 ELSE @,
                         !.pc = IF last THEN "send" ELSE "tools"]
    /\ UNCHANGED <<agentVars, taskVars, callerVars, qmsgs, watchVars, otherVars>>

\* The mutant of queryMaxIterationsReached: running out of iterations is
\* reported as the answer.
queryMaxIterationsAnswered ==
    /\ q.pc = "send"
    /\ q.i >= queryMaxIterations
    /\ QueryReturn([status |-> "completed", result |-> "max tool iterations reached",
                    error |-> ""])
    /\ UNCHANGED <<agentVars, taskVars, watchVars, llmConfig, client, netVars, pureVars>>

\* llm.go:336: the loop ran out of iterations
queryMaxIterationsReached ==
    /\ q.pc = "send"
    /\ q.i >= queryMaxIterations
    /\ QueryReturn([status |-> "failed", result |-> "",
                    error |-> "max tool iterations reached"])
    /\ UNCHANGED <<agentVars, taskVars, watchVars, llmConfig, client, netVars, pureVars>>

(***************************************************************************)
(* llm.go: the plain-chat paths and their streams.                         *)
(***************************************************************************)
\* Lines of an Ollama stream: fragments, a fragment marked done, an object
\* without a message, and lines that are blank or not JSON
OllamaHel == "{\"message\":{\"content\":\"Hel\"},\"done\":false}"
OllamaLo == "{\"message\":{\"content\":\"lo\"},\"done\":false}"
OllamaEnd == "{\"message\":{\"content\":\"!\"},\"done\":true}"
OllamaError == "{\"error\":\"model not found\"}"
OllamaLines == {OllamaHel, OllamaLo, OllamaEnd, OllamaError, "not json", "  "}

\* Lines of an OpenAI stream
OpenAIHel == "data: {\"choices\":[{\"delta\":{\"content\":\"Hel\"}}]}"
OpenAILo == "data: {\"choices\":[{\"delta\":{\"content\":\"lo\"}}]}"
OpenAINoChoice == "data: {\"choices\":[]}"
OpenAIDone == "data: [DONE]"
OpenAILines == {OpenAIHel, OpenAILo, OpenAINoChoice, OpenAIDone, "data:",
                "data: not json", ": keep-alive"}

\* strings.TrimSpace, on the lines of the model
TrimSpace(line) == IF line = "  " THEN "" ELSE line

\* json.Unmarshal([]byte(line), &ollamaResp) (llm.go:440-443)
UnmarshalOllama(line) ==
    CASE line = OllamaHel -> [ok |-> TRUE, content |-> "Hel", done |-> FALSE]
      [] line = OllamaLo -> [ok |-> TRUE, content |-> "lo", done |-> FALSE]
      [] line = OllamaEnd -> [ok |-> TRUE, content |-> "!", done |-> TRUE]
      [] line = OllamaError -> [ok |-> TRUE, content |-> "", done |-> FALSE]
      [] OTHER -> [ok |-> FALSE, content |-> "", done |-> FALSE]

\* strings.HasPrefix(line, "data:") and the payload after it (llm.go:378-379)
HasDataPrefix(line) ==
    line \in {OpenAIHel, OpenAILo, OpenAINoChoice, OpenAIDone, "data:", "data: not json"}

\* json.Unmarshal([]byte(payload), &responseData) and Choices[0].Delta.Content
\* (llm.go:384-391); choices is the length of Choices
UnmarshalOpenAI(line) ==
    CASE line = OpenAIHel -> [ok |-> TRUE, choices |-> 1, content |-> "Hel"]
      [] line = OpenAILo -> [ok |-> TRUE, choices |-> 1, content |-> "lo"]
      [] line = OpenAINoChoice -> [ok |-> TRUE, choices |-> 0, content |-> ""]
      [] OTHER -> [ok |-> FALSE, choices |-> 0, content |-> ""]

\* A stream is the lines of a response body; terminated tells whether the last
\* line ends with a newline.  ReadString('\n') hands out the lines that end
\* with a newline and returns an error with what is left (llm.go:431-434).
Readable(stream) ==
    IF stream.terminated \/ stream.lines = <<>>
    THEN stream.lines
    ELSE SubSeq(stream.lines, 1, Len(stream.lines) - 1)

\* llm.go:430-453: the loop of processOllamaStream from line j on, with the
\* buffer and the arguments the callback was given so far
RECURSIVE OllamaLoop(_, _, _, _)
OllamaLoop(lines, j, totalData, callbacks) ==
    IF j > Len(lines)
    THEN [data |-> totalData, callbacks |-> callbacks]
    ELSE LET line == TrimSpace(lines[j])
             r == UnmarshalOllama(line)
             data == totalData \o r.content
         IN IF line = "" \/ ~r.ok
            THEN OllamaLoop(lines, j + 1, totalData, callbacks)
            ELSE IF r.done
            THEN [data |-> data, callbacks |-> Append(callbacks, data)]
            ELSE OllamaLoop(lines, j + 1, data, Append(callbacks, data))

\* The mutant of processOllamaStream: the fragment marked done is left out.
processOllamaStreamDropsLast(stream) ==
    LET r == OllamaLoop(Readable(stream), 1, "", <<>>) IN
    IF r.callbacks = <<>> THEN r
    ELSE [data |-> IF Len(r.callbacks) = 1 THEN ""
                   ELSE r.callbacks[Len(r.callbacks) - 1],
          callbacks |-> SubSeq(r.callbacks, 1, Len(r.callbacks) - 1)]

\* llm.go:427-455
processOllamaStream(stream) == OllamaLoop(Readable(stream), 1, "", <<>>)

\* llm.go:369-397: the loop of processOpenAIStream
RECURSIVE OpenAILoop(_, _, _, _)
OpenAILoop(lines, j, totalData, callbacks) ==
    IF j > Len(lines)
    THEN [data |-> totalData, callbacks |-> callbacks]
    ELSE LET line == TrimSpace(lines[j])
             r == UnmarshalOpenAI(line)
             data == totalData \o r.content
         IN IF line = OpenAIDone
            THEN [data |-> totalData, callbacks |-> callbacks]
            ELSE IF ~HasDataPrefix(line) \/ line = "data:" \/ ~r.ok \/ r.choices = 0
            THEN OpenAILoop(lines, j + 1, totalData, callbacks)
            ELSE OpenAILoop(lines, j + 1, data, Append(callbacks, data))

\* llm.go:366-399
processOpenAIStream(stream) == OpenAILoop(Readable(stream), 1, "", <<>>)

\* A response whose body is a stream
StreamResponse(status, stream) ==
    [transport |-> "ok", status |-> status, body |-> "stream", choices |-> <<>>,
     stream |-> stream]

\* What a request of queryOllama can come back with
OllamaResponses ==
    {TransportError,
     StreamResponse(500, [lines |-> <<>>, terminated |-> TRUE]),
     StreamResponse(200, [lines |-> <<OllamaHel, OllamaLo, OllamaEnd>>, terminated |-> TRUE]),
     StreamResponse(200, [lines |-> <<OllamaHel, "not json">>, terminated |-> TRUE]),
     StreamResponse(200, [lines |-> <<>>, terminated |-> TRUE])}

\* sessions created in one behaviour
MaxSessions == 3

\* NewLLMClient (llm.go:34-74): a client is made for a configuration; its
\* conversation is the prompt of the configuration with the environment
\* behind the system message.  When the database opens (dbOpens) a session is
\* created, unless the insert fails (created), and the memory of the
\* directory is loaded
NewLLMClient(cfg, dbOpens, created) ==
    /\ caller.pc = "idle"
    /\ q.pc = "none"
    /\ created => dbOpens /\ memoryDB.issued < MaxSessions
    /\ llmConfig' = cfg
    /\ LET msgs == <<PlainMsg("system", SystemPrompt \o EnvText)>>
           id == IF created THEN memoryDB.issued + 1 ELSE 0
           db == IF created
                 THEN [issued |-> id,
                       sessions |-> Append(memoryDB.sessions, NewSession(id))]
                 ELSE memoryDB
       IN /\ memoryDB' = db
          /\ client' = [db |-> dbOpens, sessionID |-> id, initialPromptLen |-> Len(msgs)]
          /\ qmsgs' = IF dbOpens THEN loadContextualMemory(msgs, db, id) ELSE msgs
    /\ UNCHANGED <<agentVars, taskVars, callerVars, q, watchVars, netVars, pureVars>>

\* ClearMemory (llm.go:457-463): the conversation is cut to the length of the
\* prompt, whose first message keeps what was written behind it, and the
\* session of the client is deleted
ClearMemory ==
    /\ caller.pc = "idle"
    /\ q.pc = "none"
    /\ qmsgs' = SubSeq(qmsgs, 1, client.initialPromptLen)
    /\ memoryDB' = IF client.db /\ client.sessionID # 0
                   THEN DeleteSession(memoryDB, client.sessionID)
                   ELSE memoryDB
    /\ ret' = [NoRet EXCEPT !.op = "clear_memory"]
    /\ UNCHANGED <<agentVars, taskVars, caller, q, watchVars, llmConfig, client,
                   netVars, pureVars>>

\* UpdateSessionTitle (db.go:129-132), called by the program that holds the
\* database
UpdateSessionTitle(id, title) ==
    /\ caller.pc = "idle"
    /\ q.pc = "none"
    /\ memoryDB' = UpdateSession(memoryDB, id, "title", title)
    /\ ret' = [NoRet EXCEPT !.op = "update_session_title", !.id = id]
    /\ UNCHANGED <<agentVars, taskVars, caller, queryVars, watchVars, llmConfig, client,
                   netVars, pureVars>>

\* UpdateSessionSummary (db.go:134-137)
UpdateSessionSummary(id, summary) ==
    /\ caller.pc = "idle"
    /\ q.pc = "none"
    /\ memoryDB' = UpdateSession(memoryDB, id, "summary", summary)
    /\ ret' = [NoRet EXCEPT !.op = "update_session_summary", !.id = id]
    /\ UNCHANGED <<agentVars, taskVars, caller, queryVars, watchVars, llmConfig, client,
                   netVars, pureVars>>

\* DeleteOldSessions (db.go:354-361): the sessions whose updated_at is before
\* the cutoff are deleted, with their messages (schema.sql:29), and counted;
\* older is the number of sessions the cutoff leaves behind it
DeleteOldSessions(older) ==
    /\ caller.pc = "idle"
    /\ q.pc = "none"
    /\ older <= Len(memoryDB.sessions)
    /\ memoryDB' = [memoryDB EXCEPT !.sessions = SubSeq(@, older + 1, Len(@))]
    /\ ret' = [NoRet EXCEPT !.op = "delete_old_sessions", !.count = older]
    /\ UNCHANGED <<agentVars, taskVars, caller, queryVars, watchVars, llmConfig, client,
                   netVars, pureVars>>

\* llm.go:401-413: the conversation goes out, without tools; on the error of
\* createRequest queryOllama returns it and nothing goes out
queryOllamaSend ==
    /\ q.pc = "ollama_send"
    /\ IF ValidURL(llmConfig.Endpoint)
       THEN /\ q' = [q EXCEPT !.pc = "ollama_http", !.sent = @ + 1, !.offered = <<>>]
            /\ UNCHANGED <<qmsgs, callerVars, memoryDB>>
       ELSE QueryReturn(CreateRequestError)
    /\ UNCHANGED <<agentVars, taskVars, watchVars, llmConfig, client, netVars, pureVars>>

\* llm.go:413-424: what queryOllama makes of the outcome of httpClient.Do
OllamaVerdict(resp) ==
    IF resp.transport = "error"
    THEN [status |-> "failed", result |-> "", error |-> "failed to make API request"]
    ELSE IF resp.status # 200
    THEN [status |-> "failed", result |-> "", error |-> "API request failed"]
    ELSE [status |-> "completed", result |-> processOllamaStream(resp.stream).data,
          error |-> ""]

\* llm.go:413-424, 238-246: the response is read and Query returns
queryOllamaReceive(resp) ==
    /\ q.pc = "ollama_http"
    /\ QueryReturn(OllamaVerdict(resp))
    /\ UNCHANGED <<agentVars, taskVars, watchVars, llmConfig, client, netVars, pureVars>>

(***************************************************************************)
(* The auth header of a provider request.                                  *)
(***************************************************************************)
\* Header names a configuration may carry ("" for none)
HeaderNames == {"", "Authorization", "authorization", "AUTHORIZATION", "x-api-key",
                "Api-Key"}

\* strings.ToLower, on the header names of the model
ToLower(name) ==
    CASE name \in {"Authorization", "authorization", "AUTHORIZATION"} -> "authorization"
      [] name = "Api-Key" -> "api-key"
      [] name = "X-Api-Key" -> "x-api-key"
      [] OTHER -> name

\* The key http.Header.Set stores a value under (textproto's canonical form)
CanonicalHeaderKey(name) ==
    CASE name \in {"Authorization", "authorization", "AUTHORIZATION"} -> "Authorization"
      [] name = "x-api-key" -> "X-Api-Key"
      [] OTHER -> name

\* a request without an auth header
NoHeader == [name |-> "", value |-> ""]

\* The mutant of createRequestAuth: the header name is compared as it is.
createRequestAuthExactName(cfg) ==
    IF cfg.Auth = "" THEN NoHeader
    ELSE IF cfg.AuthHeader # ""
    THEN [name |-> CanonicalHeaderKey(cfg.AuthHeader),
          value |-> IF cfg.AuthHeader = "authorization"
                    THEN "Bearer " \o cfg.Auth ELSE cfg.Auth]
    ELSE IF EndpointContains(cfg.Endpoint, "openai.azure.com")
    THEN [name |-> "Api-Key", value |-> cfg.Auth]
    ELSE [name |-> "Authorization", value |-> "Bearer " \o cfg.Auth]

\* llm.go:201-216: the auth header createRequest sets
createRequestAuth(cfg) ==
    IF cfg.Auth = "" THEN NoHeader
    ELSE IF cfg.AuthHeader # ""
    THEN [name |-> CanonicalHeaderKey(cfg.AuthHeader),
          value |-> IF ToLower(cfg.AuthHeader) = "authorization"
                    THEN "Bearer " \o cfg.Auth ELSE cfg.Auth]
    ELSE IF EndpointContains(cfg.Endpoint, "openai.azure.com")
    THEN [name |-> "Api-Key", value |-> cfg.Auth]
    ELSE [name |-> "Authorization", value |-> "Bearer " \o cfg.Auth]

\* agents.go:270-278: the auth header runAgent sets, for the agentConfig that
\* InitAgentConfig(endpoint, modelName, apiKey, authHeader) stored
runAgentAuth(endpoint, apiKey, authHeader) ==
    IF authHeader # ""
    THEN [name |-> CanonicalHeaderKey(authHeader),
          value |-> IF ToLower(authHeader) = "authorization"
                    THEN "Bearer " \o apiKey ELSE apiKey]
    ELSE [name |-> "Authorization", value |-> "Bearer " \o apiKey]

(***************************************************************************)
(* db/knowledge.go: the error patterns of the knowledge store.             *)
(***************************************************************************)
\* getCurrentProjectPath (docs.go:1827-1832): the working directory
ProjectPath == "/work/app"

\* rows of a table of error patterns
MaxPatternRows == 3

\* Rows of the table error_patterns; the project path "" stands for NULL
PatternUndefined ==
    [signature |-> "undefined", error_type |-> "compile", language |-> "go",
     root_cause |-> "", solution |-> "declare the identifier",
     command |-> "go generate ./...", success_count |-> 0, failure_count |-> 0,
     last_used |-> 0, project |-> ""]
PatternModule ==
    [signature |-> "Cannot find module", error_type |-> "compile",
     language |-> "typescript", root_cause |-> "", solution |-> "install the module",
     command |-> "", success_count |-> 0, failure_count |-> 0,
     last_used |-> 0, project |-> "/work/app"]

InitPatterns == <<PatternUndefined, PatternModule>>

\* text LIKE '%' || part || '%', on the texts of the model
Contains(text, part) ==
    \/ part = ""
    \/ text = part
    \/ <<text, part>> \in {<<"undefined: foo", "undefined">>,
                           <<"undefined: bar", "undefined">>,
                           <<"Cannot find module 'left-pad'", "Cannot find module">>,
                           <<"ModuleNotFoundError: No module named 'requests'",
                             "ModuleNotFoundError">>,
                           <<"undefined: foo in main.go", "undefined: foo">>}

\* The WHERE clause of FindMatchingErrorPatterns (knowledge.go:452-462); AND
\* binds tighter than OR, so the project test belongs to the second LIKE
MatchesPattern(row, errorText, projectPath) ==
    \/ Contains(errorText, row.signature)
    \/ /\ Contains(row.signature, errorText)
       /\ projectPath # "" => row.project \in {projectPath, ""}

\* ORDER BY success_count DESC, last_used DESC
RanksBefore(r1, r2) ==
    \/ r1.success_count > r2.success_count
    \/ r1.success_count = r2.success_count /\ r1.last_used > r2.last_used

\* FindMatchingErrorPatterns(errorText, projectPath, 1) (knowledge.go:451-499):
\* the ids a query with LIMIT 1 can return first; the empty set when no row
\* matches.  Rows that the order does not tell apart can come in either order.
FirstMatchingPatterns(table, errorText, projectPath) ==
    LET matching == {id \in DOMAIN table :
                        MatchesPattern(table[id], errorText, projectPath)}
    IN {id \in matching : \A o \in matching : ~RanksBefore(table[o], table[id])}

\* LIMIT ?: the first limit rows, all of them under a negative limit
Limited(rows, limit) ==
    IF limit < 0 \/ Len(rows) <= limit THEN rows ELSE SubSeq(rows, 1, limit)

\* FindMatchingErrorPatterns (knowledge.go:451-499): the results the query can
\* give, the rows of the WHERE clause in the order of ORDER BY, cut by LIMIT;
\* rows that the order does not tell apart can come in either order
FindMatchingErrorPatterns(table, errorText, projectPath, limit) ==
    LET matching == {id \in DOMAIN table :
                        MatchesPattern(table[id], errorText, projectPath)}
        n == Cardinality(matching)
        orders == {o \in [1..n -> matching] :
                      /\ \A i, j \in 1..n : i # j => o[i] # o[j]
                      /\ \A i, j \in 1..n :
                            i < j => ~RanksBefore(table[o[j]], table[o[i]])}
    IN {Limited([i \in 1..n |-> table[o[i]]], limit) : o \in orders}

\* time.Now() of a statement on the table: later than every last_used in it
RECURSIVE LatestUse(_)
LatestUse(table) ==
    IF table = <<>> THEN 0
    ELSE LET rest == LatestUse(Tail(table)) IN
         IF Head(table).last_used > rest THEN Head(table).last_used ELSE rest
Now(table) == LatestUse(table) + 1

\* The mutant of RecordErrorPatternResult: the two counters are swapped.
RecordErrorPatternResultSwapped(table, id, success) ==
    [table EXCEPT ![id].success_count = IF success THEN @ ELSE @ + 1,
                  ![id].failure_count = IF success THEN @ + 1 ELSE @,
                  ![id].last_used = Now(table)]

\* RecordErrorPatternResult (knowledge.go:501-513): one counter of the row is
\* incremented and last_used is set to the time of the call
RecordErrorPatternResult(table, id, success) ==
    [table EXCEPT ![id].success_count = IF success THEN @ + 1 ELSE @,
                  ![id].failure_count = IF success THEN @ ELSE @ + 1,
                  ![id].last_used = Now(table)]

\* UpsertErrorPattern (knowledge.go:386-408): a row with the signature and the
\* project is updated, its root cause, solution and command taking the values
\* given, empty ones too (COALESCE lets only NULL through, and a Go string is
\* never NULL), its type and language staying; without such a row one is
\* inserted.  A conflict needs a project that is not NULL: rows without a
\* project are all distinct to the index.
UpsertErrorPattern(table, signature, errorType, language, rootCause, solution, solutionCmd, projectPath) ==
    LET same == {id \in DOMAIN table : /\ table[id].signature = signature
                                      /\ table[id].project = projectPath
                                      /\ projectPath # ""}
    IN IF same # {}
       THEN LET id == CHOOSE i \in same : TRUE IN
            [table EXCEPT ![id].root_cause = rootCause, ![id].solution = solution,
                          ![id].command = solutionCmd, ![id].last_used = Now(table)]
       ELSE Append(table, [signature |-> signature, error_type |-> errorType,
                           language |-> language, root_cause |-> rootCause,
                           solution |-> solution, command |-> solutionCmd,
                           success_count |-> 0, failure_count |-> 0,
                           last_used |-> Now(table), project |-> projectPath])

(***************************************************************************)
(* watch.go: the build watcher.                                            *)
(***************************************************************************)
\* watchers started in one behaviour
MaxWatchers == 3
\* build cycles of one watcher
MaxCycles == 2

WatcherIds == 1..MaxWatchers

\* ErrorEvents as the parsers make them (watch.go:518-640)
ErrUndefined ==
    [Type |-> "compile", File |-> "main.go", Line |-> 10,
     Message |-> "undefined: foo", Language |-> "go"]
ErrModule ==
    [Type |-> "compile", File |-> "app.ts", Line |-> 3,
     Message |-> "Cannot find module 'left-pad'", Language |-> "typescript"]
ErrGeneric ==
    [Type |-> "unknown", File |-> "", Line |-> 0,
     Message |-> "error: build failed", Language |-> ""]
ErrModuleBare ==
    [Type |-> "compile", File |-> "app.ts", Line |-> 3,
     Message |-> "Cannot find module", Language |-> "typescript"]
ErrPyModule ==
    [Type |-> "syntax", File |-> "app.py", Line |-> 3,
     Message |-> "ModuleNotFoundError: No module named 'requests'",
     Language |-> "python"]

\* What parseErrorOutput can make of the output of a failing command
ParsedErrors == {<<>>, <<ErrUndefined>>, <<ErrModule>>, <<ErrGeneric>>,
                 <<ErrModuleBare>>, <<ErrPyModule>>, <<ErrUndefined, ErrGeneric>>}

(***************************************************************************)
(* watch.go: the parsers of the output of a command.  An output is a       *)
(* sequence of lines and a line a sequence of tokens: names, numbers (a    *)
(* run of digits is one token), punctuation and texts.  The text of a line *)
(* is its tokens joined.                                                   *)
(***************************************************************************)
\* a token that stands for 64 KiB of text without a newline
LongText == "<64 KiB>"

DigitTokens == {"1", "2", "5", "7", "10"}
\* fmt.Sscanf(text, "%d", &n) on a run of digits
Sscanf(text) ==
    CASE text = "1" -> 1 [] text = "2" -> 2 [] text = "5" -> 5
      [] text = "7" -> 7 [] text = "10" -> 10 [] OTHER -> 0

\* tokens whose text ends with ".go", after at least one character
GoFileTokens == {"main.go", "util.go"}
SpaceTokens == {" ", "\t"}

\* The text of a sequence of tokens
RECURSIVE Text(_)
Text(tokens) == IF tokens = <<>> THEN "" ELSE Head(tokens) \o Text(Tail(tokens))

\* Lines of the output of go build
GoLineUndefined == <<"main.go", ":", "10", ":", "2", ":", " ", "undefined: foo">>
GoLineUnused == <<"util.go", ":", "5", ":", "1", ":", " ", "x declared but not used">>
GoLineOther == <<"\t", "util.go", ":", "7", ":", "1", ":", " ", "other declaration of x">>
GoLineNoColumn == <<"main.go", ":", "10", ":", " ", "undefined: foo">>
GoLineNoMessage == <<"main.go", ":", "10", ":", "2", ":">>
GoLineBlankMessage == <<"main.go", ":", "10", ":", "2", ":", " ">>
GoLinePackage == <<"# shell-ai/tools">>
GoLinePython == <<"app.py", ":", "10", ":", "2", ":", " ", "undefined: foo">>
GoLineTwice == <<"main.go", ":", "10", ":", "2", ":", " ", "x redeclared, see ",
                 "util.go", ":", "5", ":", "1", ":", " ", "x">>
GoLineLong == <<"main.go", ":", "10", ":", "2", ":", " ", LongText>>
GoLines == {GoLineUndefined, GoLineUnused, GoLineOther, GoLineNoColumn,
            GoLineNoMessage, GoLineBlankMessage, GoLinePackage, GoLinePython,
            GoLineTwice, GoLineLong, <<>>}

\* bufio.Scanner: Scan hands out the lines one by one and stops for good at a
\* line that does not fit its buffer of 64 KiB
TooLong(line) == \E j \in DOMAIN line : line[j] = LongText
Scanned(lines) ==
    LET long == {j \in DOMAIN lines : TooLong(lines[j])} IN
    IF long = {} THEN lines
    ELSE SubSeq(lines, 1, (CHOOSE j \in long : \A k \in long : j <= k) - 1)

\* \s*(.+) at the end of a pattern, on the tokens the rest of the line is made
\* of: the spaces in front are skipped, but for the last character
Trailing(rest) ==
    LET spaces == {j \in DOMAIN rest : \A k \in 1..j : rest[k] \in SpaceTokens}
        lead == Cardinality(spaces)
    IN IF lead = Len(rest) THEN rest[Len(rest)]
       ELSE Text(SubSeq(rest, lead + 1, Len(rest)))

\* The positions p at which ^(.+\.go):(\d+):(\d+):\s*(.+)$ can end its first
\* group: a token that ends with .go, then a colon, a number, a colon, a
\* number, a colon, and something left
GoMatches(line) ==
    {p \in DOMAIN line :
        /\ line[p] \in GoFileTokens
        /\ p + 6 <= Len(line)
        /\ line[p + 1] = ":" /\ line[p + 2] \in DigitTokens
        /\ line[p + 3] = ":" /\ line[p + 4] \in DigitTokens
        /\ line[p + 5] = ":"}

\* goErrorRe.FindStringSubmatch(line) (watch.go:521,526): the first group is
\* greedy and takes the last such position
FindGoSubmatch(line) ==
    LET ps == GoMatches(line)
        p == CHOOSE x \in ps : \A y \in ps : y <= x
    IN IF ps = {} THEN <<>>
       ELSE <<Text(line), Text(SubSeq(line, 1, p)), line[p + 2], line[p + 4],
              Trailing(SubSeq(line, p + 6, Len(line)))>>

\* watch.go:524-539: the loop of parseGoErrors
RECURSIVE GoLoop(_, _)
GoLoop(lines, errors) ==
    IF lines = <<>> THEN errors
    ELSE LET matches == FindGoSubmatch(Head(lines)) IN
         GoLoop(Tail(lines),
                IF Len(matches) = 5
                THEN Append(errors, [Type |-> "compile", File |-> matches[2],
                                     Line |-> Sscanf(matches[3]),
                                     Message |-> matches[5], Language |-> "go"])
                ELSE errors)

\* watch.go:518-542
parseGoErrors(output) == GoLoop(Scanned(output), <<>>)

\* Lines of the output of python
PyLineFile == <<"  ", "File \"", "app.py", "\", line ", "5">>
PyLineFileIn == <<"  ", "File \"", "lib.py", "\", line ", "7", ", in <module>">>
PyLineSyntax == <<"SyntaxError:", " ", "invalid syntax">>
PyLineSyntaxEOF == <<"SyntaxError:", " ", "unexpected EOF while parsing">>
PyLineBare == <<"SyntaxError:">>
PyLineCode == <<"    ", "print(">>
PyLineBoth == <<"File \"", "app.py", "\", line ", "5", ":", " ", "SyntaxError:", " ",
                "invalid syntax">>
PyLineIndent == <<"IndentationError:", " ", "unexpected indent">>
PyLineLong == <<"    ", LongText>>
PyLines == {PyLineFile, PyLineFileIn, PyLineSyntax, PyLineSyntaxEOF, PyLineBare,
            PyLineCode, PyLineBoth, PyLineIndent, PyLineLong}

\* pyErrorRe.FindStringSubmatch(line) (watch.go:595,605): the leftmost File ",
\* and the last ", line <number> after it (the group is greedy)
FindPyFileSubmatch(line) ==
    LET starts == {i \in DOMAIN line :
                      /\ line[i] = "File \""
                      /\ \E j \in (i + 2)..(Len(line) - 1) :
                            line[j] = "\", line " /\ line[j + 1] \in DigitTokens}
        i == CHOOSE x \in starts : \A y \in starts : x <= y
        ends == {j \in (i + 2)..(Len(line) - 1) :
                    line[j] = "\", line " /\ line[j + 1] \in DigitTokens}
        j == CHOOSE x \in ends : \A y \in ends : y <= x
    IN IF starts = {} THEN <<>>
       ELSE <<Text(SubSeq(line, i, j + 1)), Text(SubSeq(line, i + 1, j - 1)),
              line[j + 1]>>

\* syntaxRe.FindStringSubmatch(line) (watch.go:596,611)
FindSyntaxSubmatch(line) ==
    LET starts == {i \in DOMAIN line : line[i] = "SyntaxError:" /\ i < Len(line)}
        i == CHOOSE x \in starts : \A y \in starts : x <= y
    IN IF starts = {} THEN <<>>
       ELSE <<Text(SubSeq(line, i, Len(line))),
              Trailing(SubSeq(line, i + 1, Len(line)))>>

\* watch.go:602-622: the loop of parsePythonErrors
RECURSIVE PyLoop(_, _, _, _)
PyLoop(lines, lastFile, lastLine, errors) ==
    IF lines = <<>> THEN errors
    ELSE LET fileMatch == FindPyFileSubmatch(Head(lines))
             file == IF Len(fileMatch) >= 3 THEN fileMatch[2] ELSE lastFile
             num == IF Len(fileMatch) >= 3 THEN Sscanf(fileMatch[3]) ELSE lastLine
             syntaxMatch == FindSyntaxSubmatch(Head(lines))
         IN PyLoop(Tail(lines), file, num,
                   IF Len(syntaxMatch) >= 2 /\ file # ""
                   THEN Append(errors, [Type |-> "syntax", File |-> file, Line |-> num,
                                        Message |-> syntaxMatch[2],
                                        Language |-> "python"])
                   ELSE errors)

\* watch.go:592-625
parsePythonErrors(output) == PyLoop(Scanned(output), "", 0, <<>>)

\* detectBuildCommand, detectTestCommand (watch.go:417-459) for a Go module
\* and for a directory without a known project file
detectBuildCommand(lang) ==
    IF lang = "go" THEN "go build ./..." ELSE "echo 'No build command detected'"
detectTestCommand(lang) == IF lang = "go" THEN "go test ./..." ELSE ""

NoConfig == [BuildCommand |-> "", TestCommand |-> ""]

\* The threads that call attemptRepair: the goroutines of the watchers and, as
\* 0, the thread that calls the tools
Runners == {0} \cup WatcherIds

NoError == [Type |-> "", File |-> "", Line |-> 0, Message |-> "", Language |-> ""]
NoPattern == [signature |-> "", error_type |-> "", language |-> "", root_cause |-> "",
              solution |-> "", command |-> "", success_count |-> 0,
              failure_count |-> 0, last_used |-> 0, project |-> ""]
\* no attemptRepair is under way
NoAttempt == [pc |-> "none", e |-> NoError, first |-> 0, row |-> NoPattern,
              cmdOk |-> FALSE, result |-> <<>>]
\* no triggerBuild and no diagnoseError is under way
NoBuildCall == [op |-> "", pending |-> <<>>, auto |-> FALSE, known |-> <<>>,
                lines |-> <<>>]

NoWatcher == [pc |-> "none", running |-> FALSE, cancelled |-> FALSE, cycles |-> 0,
              config |-> NoConfig, errorHistory |-> <<>>, repairHistory |-> <<>>,
              pending |-> <<>>]

InitWatch ==
    /\ activeWatcher = 0
    /\ watchers = [w \in WatcherIds |-> NoWatcher]
    /\ knowledgeDB = FALSE
    /\ patterns = InitPatterns
    /\ repairLog = <<>>
    /\ attempt = [r \in Runners |-> NoAttempt]
    /\ buildCall = NoBuildCall

\* InitKnowledgeDB (docs.go:1360-1362)
InitKnowledgeDB ==
    /\ caller.pc = "idle"
    /\ ~knowledgeDB
    /\ knowledgeDB' = TRUE
    /\ UNCHANGED <<agentVars, taskVars, callerVars, queryVars, otherVars>>
    /\ UNCHANGED <<activeWatcher, watchers, patterns, repairLog, attempt, buildCall>>

\* The Watcher structs made so far
Allocated == {w \in WatcherIds : watchers[w].pc # "none"}

\* watch.go:140, 196: activeWatcher != nil && activeWatcher.running
WatcherBusy == activeWatcher # 0 /\ watchers[activeWatcher].running

\* watch.go:136-190; lang is what the working directory holds at the call
startWatch(buildArg, testArg, lang) ==
    /\ caller.pc = "idle"
    /\ IF WatcherBusy
       THEN /\ ret' = [NoRet EXCEPT !.op = "start_watch",
                                    !.msg = "Watcher already running. Use stop_watch first."]
            /\ UNCHANGED <<activeWatcher, watchers>>
       ELSE LET w == Cardinality(Allocated) + 1
                config == [BuildCommand |-> IF buildArg # "" THEN buildArg
                                            ELSE detectBuildCommand(lang),
                           TestCommand |-> IF testArg # "" THEN testArg
                                           ELSE detectTestCommand(lang)]
            IN /\ w \in WatcherIds
               /\ watchers' = [watchers EXCEPT ![w] = [NoWatcher EXCEPT !.pc = "start",
                                                                        !.config = config]]
               /\ activeWatcher' = w
               /\ ret' = [NoRet EXCEPT !.op = "start_watch", !.id = w,
                                       !.msg = "Watch mode started"]
    /\ UNCHANGED <<agentVars, taskVars, caller, queryVars, otherVars>>
    /\ UNCHANGED <<knowledgeDB, patterns, repairLog, attempt, buildCall>>

\* watch.go:192-209
stopWatch ==
    /\ caller.pc = "idle"
    /\ IF ~WatcherBusy
       THEN /\ ret' = [NoRet EXCEPT !.op = "stop_watch", !.msg = "No watcher running."]
            /\ UNCHANGED <<activeWatcher, watchers>>
       ELSE /\ watchers' = [watchers EXCEPT ![activeWatcher].cancelled = TRUE,
                                            ![activeWatcher].running = FALSE]
            /\ activeWatcher' = 0
            /\ ret' = [NoRet EXCEPT !.op = "stop_watch", !.id = activeWatcher,
                                    !.msg = "Watcher stopped.",
                                    !.count = Len(watchers[activeWatcher].errorHistory)]
    /\ UNCHANGED <<agentVars, taskVars, caller, queryVars, otherVars>>
    /\ UNCHANGED <<knowledgeDB, patterns, repairLog, attempt, buildCall>>

\* Where runBuildCycle goes on once the errors of the build are dealt with
\* (watch.go:389-390): to the test command when one is configured
AfterBuild(config) == IF config.TestCommand # "" THEN "test" ELSE "select"

\* watch.go:335-338: the goroutine sets running, under the watcher's own lock
watcherRun(w) ==
    /\ watchers[w].pc = "start"
    /\ watchers' = [watchers EXCEPT ![w].running = TRUE, ![w].pc = "first"]
    /\ UNCHANGED <<agentVars, taskVars, callerVars, queryVars, otherVars>>
    /\ UNCHANGED <<activeWatcher, knowledgeDB, patterns, repairLog, attempt, buildCall>>

\* watch.go:340-343, 361-366: the goroutine makes its ticker and enters the
\* first cycle, which starts the build command, cancelled or not
watcherFirstCycle(w) ==
    /\ watchers[w].pc = "first"
    /\ watchers' = [watchers EXCEPT ![w].pc = "build", ![w].cycles = @ + 1]
    /\ UNCHANGED <<agentVars, taskVars, callerVars, queryVars, otherVars>>
    /\ UNCHANGED <<activeWatcher, knowledgeDB, patterns, repairLog, attempt, buildCall>>

\* watch.go:366-368, 403-415: the build command returns; it is run under a
\* context of its own, so it ends by itself or by its timeout; errs is what
\* parseErrorOutput makes of the output of a failed build
watcherBuildEnds(w, errs) ==
    /\ watchers[w].pc = "build"
    /\ watchers' = [watchers EXCEPT ![w].pending = errs,
                                    ![w].pc = IF errs # <<>> THEN "error"
                                              ELSE AfterBuild(watchers[w].config)]
    /\ UNCHANGED <<agentVars, taskVars, callerVars, queryVars, otherVars>>
    /\ UNCHANGED <<activeWatcher, knowledgeDB, patterns, repairLog, attempt, buildCall>>

\* watch.go:369-378: the next error of the build goes into the error
\* history, and attemptRepair is called for it
watcherRecordError(w) ==
    /\ watchers[w].pc = "error"
    /\ watchers' = [watchers EXCEPT
                      ![w].errorHistory = Append(@, Head(watchers[w].pending)),
                      ![w].pc = "repair"]
    /\ attempt' = [attempt EXCEPT ![w] = [NoAttempt EXCEPT
                                             !.pc = "lookup",
                                             !.e = Head(watchers[w].pending)]]
    /\ UNCHANGED <<agentVars, taskVars, callerVars, queryVars, otherVars>>
    /\ UNCHANGED <<activeWatcher, knowledgeDB, patterns, repairLog, buildCall>>

NoRepair(e) == [Error |-> e, Success |-> FALSE, Attempts |-> 0, Solution |-> "",
                Command |-> ""]

\* extractModuleName, extractPythonModule (watch.go:729-745): the quoted name
\* behind the marker, "" without one
extractModuleName(message) ==
    IF message = "Cannot find module 'left-pad'" THEN "left-pad" ELSE ""
extractPythonModule(message) ==
    IF message = "ModuleNotFoundError: No module named 'requests'" THEN "requests"
    ELSE ""

\* The install command tryCommonFixes runs for an error (watch.go:698-713),
\* "" when it runs none
InstallCommand(e) ==
    CASE e.Language \in {"javascript", "typescript"}
            /\ Contains(e.Message, "Cannot find module")
            /\ extractModuleName(e.Message) # "" ->
               "npm install " \o extractModuleName(e.Message)
      [] e.Language = "python"
            /\ Contains(e.Message, "ModuleNotFoundError")
            /\ extractPythonModule(e.Message) # "" ->
               "pip install " \o extractPythonModule(e.Message)
      [] OTHER -> ""

\* tryCommonFixes (watch.go:686-717): a missing JavaScript or Python module
\* whose name is found is installed, and the value is whether the install
\* command exits zero (installOk); for every other error, those of Go
\* included, the value is false
tryCommonFixes(e, installOk) ==
    IF InstallCommand(e) # "" THEN installOk ELSE FALSE

\* The mutant of attemptRepair: the command of a pattern is run without being
\* counted as an attempt.
attemptRepairUncounted(e, first, row, cmdOk, installOk) ==
    LET tried == first # 0 /\ row.command # ""
        heur == e.File # "" /\ e.Line > 0
        fixed == heur /\ tryCommonFixes(e, installOk)
    IN IF tried /\ cmdOk
       THEN [result |-> [NoRepair(e) EXCEPT !.Success = TRUE,
                                            !.Solution = row.solution,
                                            !.Command = row.command],
             recorded |-> <<[id |-> first, success |-> TRUE]>>,
             heuristics |-> FALSE]
       ELSE [result |-> [NoRepair(e) EXCEPT
                            !.Success = fixed,
                            !.Attempts = IF heur THEN 1 ELSE 0,
                            !.Solution = IF fixed THEN "Applied common fix pattern" ELSE ""],
             recorded |-> IF tried THEN <<[id |-> first, success |-> FALSE]>> ELSE <<>>,
             heuristics |-> heur]

\* attemptRepair (watch.go:642-684), as a function of what its calls gave:
\* first is the id of the pattern the lookup returned (0 for none, and
\* without a store), row that pattern as it was returned, cmdOk whether the
\* pattern's command exits zero, installOk whether an install command does.
\* The value holds the RepairResult, the calls of RecordErrorPatternResult and
\* whether tryCommonFixes was called
attemptRepair(e, first, row, cmdOk, installOk) ==
    LET tried == first # 0 /\ row.command # ""
        heur == e.File # "" /\ e.Line > 0
        fixed == heur /\ tryCommonFixes(e, installOk)
    IN IF tried /\ cmdOk
       THEN [result |-> [NoRepair(e) EXCEPT !.Success = TRUE, !.Attempts = 1,
                                            !.Solution = row.solution,
                                            !.Command = row.command],
             recorded |-> <<[id |-> first, success |-> TRUE]>>,
             heuristics |-> FALSE]
       ELSE [result |-> [NoRepair(e) EXCEPT
                            !.Success = fixed,
                            !.Attempts = (IF tried THEN 1 ELSE 0) + (IF heur THEN 1 ELSE 0),
                            !.Solution = IF fixed THEN "Applied common fix pattern" ELSE ""],
             recorded |-> IF tried THEN <<[id |-> first, success |-> FALSE]>> ELSE <<>>,
             heuristics |-> heur]

\* The pattern ids attemptRepair can get from the store for an error: one of
\* the first matching rows, or 0 when there is no store or no row matches
LookupResults(e) ==
    LET ids == IF knowledgeDB
               THEN FirstMatchingPatterns(patterns, e.Message, ProjectPath)
               ELSE {}
    IN IF ids = {} THEN {0} ELSE ids

\* attemptRepair returns (watch.go:659-664, 674-683): the thread holds the
\* RepairResult, and the log takes what the call did
AttemptReturns(r, first, row, cmdOk, installOk) ==
    LET e == attempt[r].e
        out == attemptRepair(e, first, row, cmdOk, installOk)
    IN /\ attempt' = [attempt EXCEPT ![r] = [pc |-> "done", e |-> e, first |-> first,
                                             row |-> row, cmdOk |-> cmdOk,
                                             result |-> <<out.result>>]]
       /\ repairLog' = Append(repairLog,
                              [error |-> e, found |-> first, row |-> row,
                               cmdOk |-> cmdOk, recorded |-> out.recorded,
                               heuristics |-> out.heuristics, result |-> out.result])

\* watch.go:671-673: after the store, the heuristics: an error with a file
\* and a line goes to tryCommonFixes, which may start an install command
AttemptHeuristics(r, first, row) ==
    LET e == attempt[r].e IN
    IF e.File # "" /\ e.Line > 0 /\ InstallCommand(e) # ""
    THEN /\ attempt' = [attempt EXCEPT ![r].pc = "install", ![r].first = first,
                                       ![r].row = row]
         /\ UNCHANGED repairLog
    ELSE AttemptReturns(r, first, row, FALSE, FALSE)

\* watch.go:649-655: the lookup in the store, when there is one; the command
\* of the pattern it returned is started
attemptRepairLookup(r, first) ==
    /\ attempt[r].pc = "lookup"
    /\ first \in LookupResults(attempt[r].e)
    /\ LET row == IF first = 0 THEN NoPattern ELSE patterns[first] IN
       IF first # 0 /\ row.command # ""
       THEN /\ attempt' = [attempt EXCEPT ![r].pc = "command", ![r].first = first,
                                          ![r].row = row]
            /\ UNCHANGED repairLog
       ELSE AttemptHeuristics(r, first, row)
    /\ UNCHANGED <<agentVars, taskVars, callerVars, queryVars, otherVars>>
    /\ UNCHANGED <<activeWatcher, watchers, knowledgeDB, patterns, buildCall>>

\* watch.go:655-667: the command of the pattern returns (runBuildCommand lets
\* it run for two minutes at most) and its outcome is recorded in the store
attemptRepairCommand(r, cmdOk) ==
    /\ attempt[r].pc = "command"
    /\ patterns' = RecordErrorPatternResult(patterns, attempt[r].first, cmdOk)
    /\ IF cmdOk
       THEN AttemptReturns(r, attempt[r].first, attempt[r].row, TRUE, FALSE)
       ELSE /\ LET e == attempt[r].e IN
               IF e.File # "" /\ e.Line > 0 /\ InstallCommand(e) # ""
               THEN /\ attempt' = [attempt EXCEPT ![r].pc = "install"]
                    /\ UNCHANGED repairLog
               ELSE AttemptReturns(r, attempt[r].first, attempt[r].row, FALSE, FALSE)
    /\ UNCHANGED <<agentVars, taskVars, callerVars, queryVars, otherVars>>
    /\ UNCHANGED <<activeWatcher, watchers, knowledgeDB, buildCall>>

\* watch.go:702-703, 710-711: the install command of tryCommonFixes returns
attemptRepairInstall(r, installOk) ==
    /\ attempt[r].pc = "install"
    /\ AttemptReturns(r, attempt[r].first, attempt[r].row, attempt[r].cmdOk, installOk)
    /\ UNCHANGED <<agentVars, taskVars, callerVars, queryVars, otherVars>>
    /\ UNCHANGED <<activeWatcher, watchers, knowledgeDB, patterns, buildCall>>

\* The steps of a call of attemptRepair by thread r
attemptRepairSteps(r) ==
    \/ \E first \in {0} \cup DOMAIN patterns : attemptRepairLookup(r, first)
    \/ \E cmdOk \in BOOLEAN : attemptRepairCommand(r, cmdOk)
    \/ \E installOk \in BOOLEAN : attemptRepairInstall(r, installOk)

\* watch.go:378-385: attemptRepair has returned to the goroutine, and its
\* result goes into the repair history under the watcher's lock
watcherRepair(w) ==
    /\ watchers[w].pc = "repair"
    /\ attempt[w].pc = "done"
    /\ LET rest == Tail(watchers[w].pending) IN
       watchers' = [watchers EXCEPT
                      ![w].repairHistory = Append(@, attempt[w].result[1]),
                      ![w].pending = rest,
                      ![w].pc = IF rest # <<>> THEN "error"
                                ELSE AfterBuild(watchers[w].config)]
    /\ attempt' = [attempt EXCEPT ![w] = NoAttempt]
    /\ UNCHANGED <<agentVars, taskVars, callerVars, queryVars, otherVars>>
    /\ UNCHANGED <<activeWatcher, knowledgeDB, patterns, repairLog, buildCall>>

\* the calls of attemptRepair after which the tools start no further repair
MaxRepairs == 2
\* the time up to which learn_error_pattern is called
MaxLearnClock == 2

\* learnErrorPattern (docs.go:1609-1634)
learnErrorPattern(signature, errorType, language, solution, solutionCmd) ==
    /\ caller.pc = "idle"
    /\ IF ~knowledgeDB
       THEN /\ ret' = Failure("learn_error_pattern", 0,
                              "knowledge database not initialized")
            /\ UNCHANGED patterns
       ELSE IF signature = "" \/ errorType = ""
       THEN /\ ret' = Failure("learn_error_pattern", 0,
                              "error_signature and error_type are required")
            /\ UNCHANGED patterns
       ELSE /\ Now(patterns) <= MaxLearnClock
            /\ Len(patterns) < MaxPatternRows
                 \/ \E id \in DOMAIN patterns : /\ patterns[id].signature = signature
                                                /\ patterns[id].project = ProjectPath
            /\ patterns' = UpsertErrorPattern(patterns, signature, errorType, language,
                                              "", solution, solutionCmd, ProjectPath)
            /\ ret' = [NoRet EXCEPT !.op = "learn_error_pattern",
                                    !.msg = "Learned error pattern",
                                    !.name = signature, !.result = solution]
    /\ UNCHANGED <<agentVars, taskVars, caller, queryVars, otherVars>>
    /\ UNCHANGED <<activeWatcher, watchers, knowledgeDB, repairLog, attempt, buildCall>>

\* The line triggerBuild and diagnoseError write for an error (watch.go:265-
\* 273, 302-326): the error, the solutions of the patterns diagnoseError
\* found for it, and whether a repair was tried and what came of it
ErrorLine(e, known, tried, result) ==
    [error |-> e, known |-> known,
     repair |-> IF ~tried THEN "" ELSE IF result.Success THEN "AUTO-REPAIRED"
                ELSE "failed",
     solution |-> IF tried /\ result.Success THEN result.Solution ELSE ""]

\* The thread of the caller calls attemptRepair
CallerAttempts(e) ==
    attempt' = [attempt EXCEPT ![0] = [NoAttempt EXCEPT !.pc = "lookup", !.e = e]]

\* watch.go:252-261, 276-281: the build command of triggerBuild returns; errs
\* is what parseErrorOutput makes of the output of a failed build.  With
\* errors, attemptRepair is called for the first of them
triggerBuild(failed, errs) ==
    /\ caller.pc = "idle"
    /\ errs # <<>> => failed /\ Len(repairLog) < MaxRepairs
    /\ IF errs = <<>>
       THEN /\ ret' = [NoRet EXCEPT !.op = "trigger_build",
                                    !.msg = IF failed THEN "Build failed:"
                                            ELSE "Build successful:"]
            /\ UNCHANGED <<caller, attempt, buildCall>>
       ELSE /\ caller' = [Idle EXCEPT !.pc = "build_repair", !.op = "trigger_build"]
            /\ buildCall' = [NoBuildCall EXCEPT !.op = "trigger_build", !.pending = errs,
                                                !.auto = TRUE]
            /\ CallerAttempts(Head(errs))
            /\ UNCHANGED ret
    /\ UNCHANGED <<agentVars, taskVars, queryVars, otherVars>>
    /\ UNCHANGED <<activeWatcher, watchers, knowledgeDB, patterns, repairLog>>

\* What parseErrorOutput makes of the text given to diagnoseError in a project
\* of the language (watch.go:292): the Go parser takes file:line:column:
\* message, the generic one the whole text when it holds "error"
DiagnosedErrors(errorText, lang) ==
    IF lang = "go" /\ errorText = "main.go:10:1: undefined: foo" THEN <<ErrUndefined>>
    ELSE IF lang \notin {"go", "rust", "javascript", "typescript", "python"}
            /\ errorText = "error: build failed" THEN <<ErrGeneric>>
    ELSE <<>>

\* the texts diagnoseError is called with, and the language of the project
DiagnoseCalls ==
    {<<"", "unknown">>, <<"undefined: foo", "unknown">>,
     <<"error: build failed", "unknown">>, <<"main.go:10:1: undefined: foo", "go">>}

\* watch.go:284-298: diagnoseError parses the text; a text without errors is
\* one unknown error
diagnoseError(errorText, autoRepair, lang) ==
    /\ caller.pc = "idle"
    /\ IF errorText = ""
       THEN /\ ret' = Failure("diagnose_error", 0, "error_text is required")
            /\ UNCHANGED <<caller, buildCall>>
       ELSE LET parsed == DiagnosedErrors(errorText, lang)
                errs == IF parsed = <<>>
                        THEN <<[NoError EXCEPT !.Type = "unknown",
                                               !.Message = errorText]>>
                        ELSE parsed
            IN /\ autoRepair => Len(repairLog) < MaxRepairs
               /\ caller' = [Idle EXCEPT !.pc = "diagnose", !.op = "diagnose_error"]
               /\ buildCall' = [NoBuildCall EXCEPT !.op = "diagnose_error",
                                                   !.pending = errs,
                                                   !.auto = autoRepair]
               /\ UNCHANGED ret
    /\ UNCHANGED <<agentVars, taskVars, queryVars, otherVars>>
    /\ UNCHANGED <<activeWatcher, watchers, knowledgeDB, patterns, repairLog, attempt>>

\* triggerBuild or diagnoseError is through with the first of its pending
\* errors (watch.go:265-276, 303-332): it goes on with the next, or returns
\* its text
BuildCallGoesOn(line) ==
    LET rest == Tail(buildCall.pending)
        lines == Append(buildCall.lines, line)
    IN IF rest = <<>>
       THEN /\ ret' = [NoRet EXCEPT !.op = buildCall.op,
                                    !.msg = IF buildCall.op = "trigger_build"
                                            THEN "Build failed with errors"
                                            ELSE "Diagnosed errors",
                                    !.count = Len(lines), !.lines = lines]
            /\ caller' = Idle
            /\ buildCall' = NoBuildCall
            /\ attempt' = [attempt EXCEPT ![0] = NoAttempt]
       ELSE /\ buildCall' = [buildCall EXCEPT !.pending = rest, !.lines = lines,
                                              !.known = <<>>]
            /\ IF buildCall.op = "trigger_build"
               THEN /\ CallerAttempts(Head(rest))
                    /\ UNCHANGED caller
               ELSE /\ caller' = [caller EXCEPT !.pc = "diagnose"]
                    /\ attempt' = [attempt EXCEPT ![0] = NoAttempt]
            /\ UNCHANGED ret

\* watch.go:310-327: the solutions the store knows for the next error; with
\* auto_repair, attemptRepair is called for it
diagnoseErrorLookup ==
    /\ caller.pc = "diagnose"
    /\ \E known \in (IF knowledgeDB
                     THEN FindMatchingErrorPatterns(patterns,
                                                    Head(buildCall.pending).Message,
                                                    ProjectPath, 3)
                     ELSE {<<>>}) :
       LET solutions == [i \in DOMAIN known |-> known[i].solution] IN
       IF buildCall.auto
       THEN /\ buildCall' = [buildCall EXCEPT !.known = solutions]
            /\ caller' = [caller EXCEPT !.pc = "build_repair"]
            /\ CallerAttempts(Head(buildCall.pending))
            /\ UNCHANGED ret
       ELSE BuildCallGoesOn(ErrorLine(Head(buildCall.pending), solutions, FALSE,
                                      NoRepair(NoError)))
    /\ UNCHANGED <<agentVars, taskVars, queryVars, otherVars>>
    /\ UNCHANGED <<activeWatcher, watchers, knowledgeDB, patterns, repairLog>>

\* watch.go:268-273, 320-326: attemptRepair has returned to triggerBuild or
\* to diagnoseError, which writes what came of it
buildCallRepaired ==
    /\ caller.pc = "build_repair"
    /\ attempt[0].pc = "done"
    /\ BuildCallGoesOn(ErrorLine(Head(buildCall.pending), buildCall.known, TRUE,
                                 attempt[0].result[1]))
    /\ UNCHANGED <<agentVars, taskVars, queryVars, otherVars>>
    /\ UNCHANGED <<activeWatcher, watchers, knowledgeDB, patterns, repairLog>>

\* The mutant of TestError: a test error keeps the type its parser gave it.
TestErrorKeepsType(e) == e

\* watch.go:394: e.Type = "test"
TestError(e) == [e EXCEPT !.Type = "test"]

\* watch.go:390-392: the test command returns; errs is what parseErrorOutput
\* makes of the output of a failed test run
watcherTestEnds(w, errs) ==
    /\ watchers[w].pc = "test"
    /\ watchers' = [watchers EXCEPT ![w].pending = errs,
                                    ![w].pc = IF errs # <<>> THEN "testerror"
                                              ELSE "select"]
    /\ UNCHANGED <<agentVars, taskVars, callerVars, queryVars, otherVars>>
    /\ UNCHANGED <<activeWatcher, knowledgeDB, patterns, repairLog, attempt, buildCall>>

\* watch.go:393-398: the next error of the test run goes into the error
\* history, and nothing else is done with it
watcherRecordTestError(w) ==
    /\ watchers[w].pc = "testerror"
    /\ LET rest == Tail(watchers[w].pending) IN
       watchers' = [watchers EXCEPT
                      ![w].errorHistory = Append(@, TestError(Head(watchers[w].pending))),
                      ![w].pending = rest,
                      ![w].pc = IF rest # <<>> THEN "testerror" ELSE "select"]
    /\ UNCHANGED <<agentVars, taskVars, callerVars, queryVars, otherVars>>
    /\ UNCHANGED <<activeWatcher, knowledgeDB, patterns, repairLog, attempt, buildCall>>

\* watch.go:349-353: the ticker case of the select is chosen; it can be chosen
\* as long as a tick is due, also when the context is cancelled as well
watcherTick(w) ==
    /\ watchers[w].pc = "select"
    /\ watchers[w].cycles < MaxCycles
    /\ watchers' = [watchers EXCEPT ![w].pc = "build", ![w].cycles = @ + 1]
    /\ UNCHANGED <<agentVars, taskVars, callerVars, queryVars, otherVars>>
    /\ UNCHANGED <<activeWatcher, knowledgeDB, patterns, repairLog, attempt, buildCall>>

\* The mutant of watcherReturns: the goroutine returns only while its watcher
\* is the active one.
watcherReturnsWhileActive(w) ==
    /\ watchers[w].pc = "select"
    /\ watchers[w].cancelled
    /\ activeWatcher = w
    /\ watchers' = [watchers EXCEPT ![w].pc = "returned"]
    /\ UNCHANGED <<agentVars, taskVars, callerVars, queryVars, otherVars>>
    /\ UNCHANGED <<activeWatcher, knowledgeDB, patterns, repairLog, attempt, buildCall>>

\* watch.go:347-348: the cancellation case of the select is chosen
watcherReturns(w) ==
    /\ watchers[w].pc = "select"
    /\ watchers[w].cancelled
    /\ watchers' = [watchers EXCEPT ![w].pc = "returned"]
    /\ UNCHANGED <<agentVars, taskVars, callerVars, queryVars, otherVars>>
    /\ UNCHANGED <<activeWatcher, knowledgeDB, patterns, repairLog, attempt, buildCall>>

\* The caller takes the value a call returned.  A returned value is taken
\* before any other step: ret is NoRet whenever a goroutine moves.
callerTakesResult ==
    /\ ret # NoRet
    /\ ret' = NoRet
    /\ UNCHANGED <<agentVars, taskVars, caller>>
    /\ UNCHANGED <<queryVars, watchVars, otherVars>>

\* no scan is under way
NoScan ==
    [op |-> "none", pc |-> "none", n |-> 0, spawned |-> 0, waiting |-> 0, dialing |-> 0,
     sem |-> 0, results |-> 0, finished |-> 0, ctxDone |-> FALSE]
InitScan == scan = NoScan

(***************************************************************************)
(* docs.go: port_scan and lan_scan.  The goroutines of a scan are counted  *)
(* by where they stand: spawned, waiting at the select for the semaphore,  *)
(* dialing, finished (wg.Done).                                            *)
(***************************************************************************)
\* docs.go:1070-1092: portScan up to the loop; the caller stays in the call
\* until wg.Wait returns
portScanVia(host, portsStr, via) ==
    /\ caller.pc = "idle"
    /\ scan.op = "none"
    /\ IF host = ""
       THEN /\ ret' = ViaExecuteTool(Failure("port_scan", 0, "host required"),
                                     via, "portScan")
            /\ UNCHANGED <<scan, caller>>
       ELSE /\ scan' = [NoScan EXCEPT !.op = "port_scan", !.pc = "spawn",
                                      !.n = Len(ParsePorts(portsStr))]
            /\ caller' = [Idle EXCEPT !.pc = "scan", !.op = "port_scan", !.via = via]
            /\ UNCHANGED ret
    /\ UNCHANGED <<agentVars, taskVars, queryVars, watchVars, clientVars, pureVars>>

\* portScan called by its own name
portScan(host, portsStr) == portScanVia(host, portsStr, NoVia)

\* docs.go:1094-1109: one turn of the loop, a goroutine is started and dials
portScanSpawn ==
    /\ scan.op = "port_scan"
    /\ scan.pc = "spawn"
    /\ scan.spawned < scan.n
    /\ scan' = [scan EXCEPT !.spawned = @ + 1, !.dialing = @ + 1]
    /\ UNCHANGED <<agentVars, taskVars, callerVars, queryVars, watchVars, clientVars,
                   pureVars>>

\* docs.go:1097-1107: net.DialTimeout returns; an open port is sent on results
portScanDial(open) ==
    /\ scan.op = "port_scan"
    /\ scan.dialing > 0
    /\ open => scan.results < scan.n
    /\ scan' = [scan EXCEPT !.dialing = @ - 1, !.finished = @ + 1,
                            !.results = IF open THEN @ + 1 ELSE @]
    /\ UNCHANGED <<agentVars, taskVars, callerVars, queryVars, watchVars, clientVars,
                   pureVars>>

\* docs.go:1111-1124: wg.Wait returns, results is closed and drained
portScanReturn ==
    /\ scan.op = "port_scan"
    /\ scan.pc = "spawn"
    /\ scan.spawned = scan.n
    /\ scan.finished = scan.n
    /\ ret = NoRet
    /\ ret' = ViaExecuteTool(
                [NoRet EXCEPT !.op = "port_scan", !.count = scan.results,
                              !.result = IF scan.results = 0
                                         THEN "No open ports found in scanned range"
                                         ELSE "open"],
                caller.via, "portScan")
    /\ scan' = NoScan
    /\ caller' = Idle
    /\ UNCHANGED <<agentVars, taskVars, queryVars, watchVars, clientVars, pureVars>>

\* docs.go:1150-1181: lanScan up to the loop; local is what getLocalCIDR
\* returns
lanScanVia(cidrArg, local, via) ==
    /\ caller.pc = "idle"
    /\ scan.op = "none"
    /\ LET cidr == IF cidrArg = "" THEN local ELSE cidrArg IN
       IF CidrError(cidr) # ""
       THEN /\ ret' = ViaExecuteTool(Failure("lan_scan", 0, CidrError(cidr)),
                                     via, "lanScan")
            /\ UNCHANGED <<scan, caller>>
       ELSE /\ scan' = [NoScan EXCEPT !.op = "lan_scan", !.pc = "spawn",
                                      !.n = HostsOf(cidr)]
            /\ caller' = [Idle EXCEPT !.pc = "scan", !.op = "lan_scan", !.via = via]
            /\ UNCHANGED ret
    /\ UNCHANGED <<agentVars, taskVars, queryVars, watchVars, clientVars, pureVars>>

\* lanScan called by its own name
lanScan(cidrArg, local) == lanScanVia(cidrArg, local, NoVia)

\* docs.go:1183-1186: one turn of the loop, a goroutine is started and stands
\* at its select
lanScanSpawn ==
    /\ scan.op = "lan_scan"
    /\ scan.pc = "spawn"
    /\ scan.spawned < scan.n
    /\ scan' = [scan EXCEPT !.spawned = @ + 1, !.waiting = @ + 1]
    /\ UNCHANGED <<agentVars, taskVars, callerVars, queryVars, watchVars, clientVars,
                   pureVars>>

\* docs.go:1180: the deadline of 30 seconds passes
lanScanTimeout ==
    /\ scan.op = "lan_scan"
    /\ ~scan.ctxDone
    /\ scan' = [scan EXCEPT !.ctxDone = TRUE]
    /\ UNCHANGED <<agentVars, taskVars, callerVars, queryVars, watchVars, clientVars,
                   pureVars>>

\* docs.go:1187-1189: the select takes ctx.Done and the goroutine returns
lanWorkerCtxDone ==
    /\ scan.op = "lan_scan"
    /\ scan.waiting > 0
    /\ scan.ctxDone
    /\ scan' = [scan EXCEPT !.waiting = @ - 1, !.finished = @ + 1]
    /\ UNCHANGED <<agentVars, taskVars, callerVars, queryVars, watchVars, clientVars,
                   pureVars>>

\* docs.go:1190-1194: the select takes a place of the semaphore and the
\* goroutine dials
lanWorkerAcquire ==
    /\ scan.op = "lan_scan"
    /\ scan.waiting > 0
    /\ scan.sem < PoolWidth
    /\ scan' = [scan EXCEPT !.waiting = @ - 1, !.sem = @ + 1, !.dialing = @ + 1]
    /\ UNCHANGED <<agentVars, taskVars, callerVars, queryVars, watchVars, clientVars,
                   pureVars>>

\* The mutant of lanWorkerDial: the place of the semaphore is not given back.
lanWorkerDialKeepsPlace(open) ==
    /\ scan.op = "lan_scan"
    /\ scan.dialing > 0
    /\ open => scan.results < scan.n
    /\ scan' = [scan EXCEPT !.dialing = @ - 1, !.finished = @ + 1,
                            !.results = IF open THEN @ + 1 ELSE @]
    /\ UNCHANGED <<agentVars, taskVars, callerVars, queryVars, watchVars, clientVars,
                   pureVars>>

\* docs.go:1194-1213 and 1191: the dials of ports 22, 80 and 443, one after
\* the other, end: a host that answered one is sent on results; the place of
\* the semaphore is given back
lanWorkerDial(open) ==
    /\ scan.op = "lan_scan"
    /\ scan.dialing > 0
    /\ open => scan.results < scan.n
    /\ scan' = [scan EXCEPT !.dialing = @ - 1, !.sem = @ - 1, !.finished = @ + 1,
                            !.results = IF open THEN @ + 1 ELSE @]
    /\ UNCHANGED <<agentVars, taskVars, callerVars, queryVars, watchVars, clientVars,
                   pureVars>>

\* docs.go:1217-1227: wg.Wait returns, results is closed and drained
lanScanReturn ==
    /\ scan.op = "lan_scan"
    /\ scan.pc = "spawn"
    /\ scan.spawned = scan.n
    /\ scan.finished = scan.n
    /\ ret = NoRet
    /\ ret' = ViaExecuteTool(
                [NoRet EXCEPT !.op = "lan_scan", !.count = scan.results,
                              !.result = "Found active hosts"],
                caller.via, "lanScan")
    /\ scan' = NoScan
    /\ caller' = Idle
    /\ UNCHANGED <<agentVars, taskVars, queryVars, watchVars, clientVars, pureVars>>

\* A call of ExecuteTool by the caller's thread in an environment
\* (tools.go:793-847): the handlers of the background commands act on the
\* tasks, those of the scans start their goroutines and wait for them,
\* list_tasks reads the tasks under the read lock, the other handlers return
\* at once
callExecuteTool(env, name, arguments) ==
    LET u == Unmarshal(arguments)
        via == [name |-> name, arguments |-> arguments]
    IN IF u.err = "" /\ name = "run_background"
       THEN runBackgroundVia("command" \in DOMAIN u.args, via)
       ELSE IF u.err = "" /\ name = "check_task"
       THEN checkTaskVia(TaskArg(u.args), via)
       ELSE IF u.err = "" /\ name = "kill_task"
       THEN killTaskVia(TaskArg(u.args), via)
       ELSE IF u.err = "" /\ name = "port_scan"
       THEN portScanVia(StringArg(u.args, "host"), StringArg(u.args, "ports"), via)
       ELSE IF u.err = "" /\ name = "lan_scan"
       THEN lanScanVia(StringArg(u.args, "cidr"), env.local, via)
       ELSE /\ caller.pc = "idle"
            /\ (u.err = "" /\ name = "list_tasks") => ~taskMutexHeld
            /\ LET res == ExecuteTool(env, name, arguments) IN
               ret' = [NoRet EXCEPT !.op = "execute_tool", !.name = name,
                                    !.arguments = arguments, !.handler = res.handler,
                                    !.err = res.err, !.result = res.text,
                                    !.count = IF res.handler = "listTasks"
                                              THEN Cardinality(backgroundTasks) ELSE 0]
            /\ UNCHANGED <<agentVars, taskVars, caller>>
            /\ UNCHANGED <<queryVars, watchVars, otherVars>>

(***************************************************************************)
(* The scan specification: port scans and LAN scans, one at a time, of the *)
(* ports of PortsArguments and the ranges of CidrArguments, where any port *)
(* or host may answer.                                                     *)
(***************************************************************************)
NextScan ==
    \/ callerTakesResult
    \/ ret = NoRet /\ \E host \in {"", "10.0.0.5"}, portsStr \in PortsArguments :
                        portScan(host, portsStr)
    \/ ret = NoRet /\ portScanSpawn
    \/ ret = NoRet /\ \E open \in BOOLEAN : portScanDial(open)
    \/ ret = NoRet /\ portScanReturn
    \/ ret = NoRet /\ \E cidrArg \in CidrArguments, local \in LocalCIDRs :
                        lanScan(cidrArg, local)
    \/ ret = NoRet /\ lanScanSpawn
    \/ ret = NoRet /\ lanScanTimeout
    \/ ret = NoRet /\ lanWorkerCtxDone
    \/ ret = NoRet /\ lanWorkerAcquire
    \/ ret = NoRet /\ \E open \in BOOLEAN : lanWorkerDial(open)
    \/ ret = NoRet /\ lanScanReturn

\* no pure function is being called
NoCall == [fn |-> "", arg |-> <<>>, val |-> <<>>, done |-> FALSE]
InitPure == call = NoCall

(***************************************************************************)
(* The registry specification: the caller's thread, the agent goroutines   *)
(* and the command goroutines, with a provider that answers with tool      *)
(* calls in the first SupToolRounds rounds of an agent only, and with a     *)
(* final answer or a transport error otherwise.  A command is started     *)
(* while fewer than MaxRunningTasks commands run, an agent while fewer      *)
(* than MaxRunningAgents goroutines of agents run; commands that run side  *)
(* by side are in the tool specification, agents in the clearing one.      *)
(***************************************************************************)
RunningTasks == {t \in TaskIds : taskRun[t].pc \in {"running", "status"}}

\* the agents whose goroutine has not returned
RunningAgents == {a \in AgentIds : run[a].pc \notin {"none", "done"}}

SupCalls(a) == IF run[a].i < SupToolRounds THEN {<<SimpleCall>>} ELSE {}

Init ==
    /\ InitAgents /\ InitTasks /\ InitCaller /\ InitQuery /\ InitWatch
    /\ InitClient /\ InitScan /\ InitPure

Next ==
    \/ callerTakesResult
    \/ ret = NoRet /\ InitAgentConfig("https://llm.example/v1/chat", "sk-key")
    \/ ret = NoRet /\ \E task \in {"", "list the files"} :
                        /\ task # "" => Cardinality(RunningAgents) < MaxRunningAgents
                        /\ spawnAgent(task)
    \/ ret = NoRet /\ \E id \in 0..MaxAgents : getAgentResult(id)
    \/ ret = NoRet /\ getAgentResultReturn
    \/ ret = NoRet /\ \E id \in 0..MaxAgents : cancelAgent(id)
    \/ ret = NoRet /\ cancelAgentReturn
    \/ ret = NoRet /\ ClearCompletedAgents
    \/ ret = NoRet /\ \E c \in BOOLEAN :
                        /\ c => Cardinality(RunningTasks) < MaxRunningTasks
                        /\ runBackground(c)
    \/ ret = NoRet /\ \E id \in 0..MaxTasks : checkTask(id)
    \/ ret = NoRet /\ checkTaskReturn
    \/ ret = NoRet /\ \E id \in 0..MaxTasks : killTask(id)
    \/ ret = NoRet /\ killTaskReturn
    \/ ret = NoRet /\ \E a \in AgentIds : runAgentCancelled(a)
    \/ ret = NoRet /\ \E a \in AgentIds : runAgentSend(a)
    \/ ret = NoRet /\ \E a \in AgentIds :
                        \E r \in SupResponses(SupCalls(a)) : runAgentReceive(a, r)
    \/ ret = NoRet /\ \E a \in AgentIds, whole \in BOOLEAN : runAgentResponse(a, whole)
    \/ ret = NoRet /\ \E a \in AgentIds : runAgentTool(a)
    \/ ret = NoRet /\ \E a \in AgentIds : runAgentDeferred(a)
    \/ ret = NoRet /\ \E t \in TaskIds, e \in {"", "exit status 1"} :
                        runBackgroundExit(t, e)
    \/ ret = NoRet /\ \E t \in TaskIds : runBackgroundStatus(t)

Spec == Init /\ [][Next]_vars

(***************************************************************************)
(* The loop specification: one agent with every kind of provider response, *)
(* cancelled, waited for and read by the caller.  The goroutine is         *)
(* scheduled fairly and every provider request and tool call returns.      *)
(* The configuration is set before the agent is spawned; one that changes  *)
(* under a running agent is in the token specification.                    *)
(***************************************************************************)
\* agents spawned in the loop and transcript specifications
LoopAgents == 1

LoopIds == 1..LoopAgents

LoopCalls(i) == IF i < RichRounds THEN RichCalls ELSE {<<SimpleCall>>}

AgentLoopNext(a) ==
    \/ runAgentCancelled(a)
    \/ runAgentRequestError(a)
    \/ runAgentSend(a)
    \/ \E r \in HttpResponses(LoopCalls(run[a].i)) : runAgentReceive(a, r)
    \/ \E whole \in BOOLEAN : runAgentResponse(a, whole)
    \/ runAgentTool(a)
    \/ runAgentMaxIterations(a)
    \/ runAgentDeferred(a)

NextLoop ==
    \/ callerTakesResult
    \/ ret = NoRet /\ agentCounter = 0
                   /\ \E e \in Endpoints :
                        InitAgentConfig(e, IF e = "" THEN "" ELSE "sk-key")
    \/ ret = NoRet /\ agentCounter < LoopAgents /\ spawnAgent("list the files")
    \/ ret = NoRet /\ \E id \in LoopIds : getAgentResult(id)
    \/ ret = NoRet /\ getAgentResultReturn
    \/ ret = NoRet /\ \E id \in LoopIds, timeout \in {0, 120} : waitForAgent(id, timeout)
    \/ ret = NoRet /\ waitForAgentPoll
    \/ ret = NoRet /\ waitForAgentResult
    \/ ret = NoRet /\ waitForAgentAgain
    \/ ret = NoRet /\ ClearCompletedAgents
    \/ ret = NoRet /\ waitForAgentTimeout
    \/ ret = NoRet /\ \E id \in LoopIds : cancelAgent(id)
    \/ ret = NoRet /\ cancelAgentReturn
    \/ ret = NoRet /\ \E a \in LoopIds : runAgentCancelled(a)
    \/ ret = NoRet /\ \E a \in LoopIds : runAgentRequestError(a)
    \/ ret = NoRet /\ \E a \in LoopIds : runAgentSend(a)
    \/ ret = NoRet /\ \E a \in LoopIds :
                        \E r \in HttpResponses(LoopCalls(run[a].i)) : runAgentReceive(a, r)
    \/ ret = NoRet /\ \E a \in LoopIds, whole \in BOOLEAN : runAgentResponse(a, whole)
    \/ ret = NoRet /\ \E a \in LoopIds : runAgentTool(a)
    \/ ret = NoRet /\ \E a \in LoopIds : runAgentMaxIterations(a)
    \/ ret = NoRet /\ \E a \in LoopIds : runAgentDeferred(a)

SpecLoop ==
    /\ Init
    /\ [][NextLoop]_vars
    /\ WF_vars(callerTakesResult)
    /\ \A a \in LoopIds : SF_vars(ret = NoRet /\ AgentLoopNext(a))

(***************************************************************************)
(* The transcript specification: one agent and one Query, each with rich   *)
(* tool calls in its first RichRounds rounds.                              *)
(***************************************************************************)
\* Query calls of one behaviour
MaxQueries == 1

NextTranscript ==
    \/ callerTakesResult
    \/ ret = NoRet /\ InitAgentConfig("https://llm.example/v1/chat", "sk-key")
    \/ ret = NoRet /\ agentCounter < LoopAgents /\ spawnAgent("list the files")
    \/ ret = NoRet /\ Query("what is in go.mod", MaxQueries)
    \/ ret = NoRet /\ querySend
    \/ ret = NoRet /\ \E r \in HttpResponses(LoopCalls(q.i)) : queryReceive(r)
    \/ ret = NoRet /\ queryTool
    \/ ret = NoRet /\ queryMaxIterationsReached
    \/ ret = NoRet /\ \E a \in LoopIds : runAgentSend(a)
    \/ ret = NoRet /\ \E a \in LoopIds :
                        \E r \in HttpResponses(LoopCalls(run[a].i)) : runAgentReceive(a, r)
    \/ ret = NoRet /\ \E a \in LoopIds, whole \in BOOLEAN : runAgentResponse(a, whole)
    \/ ret = NoRet /\ \E a \in LoopIds : runAgentTool(a)
    \/ ret = NoRet /\ \E a \in LoopIds : runAgentMaxIterations(a)
    \/ ret = NoRet /\ \E a \in LoopIds : runAgentDeferred(a)

SpecTranscript == Init /\ [][NextTranscript]_vars

(***************************************************************************)
(* The watcher specification: start and stop calls against the goroutines  *)
(* of up to MaxWatchers watchers, over a project without a test command     *)
(* and without a knowledge store, whose build fails with one error or not   *)
(* at all.                                                                  *)
(***************************************************************************)
NextWatch ==
    \/ callerTakesResult
    \/ ret = NoRet /\ startWatch("", "", "unknown")
    \/ ret = NoRet /\ stopWatch
    \/ ret = NoRet /\ \E w \in WatcherIds : watcherRun(w)
    \/ ret = NoRet /\ \E w \in WatcherIds : watcherFirstCycle(w)
    \/ ret = NoRet /\ \E w \in WatcherIds, errs \in {<<>>, <<ErrGeneric>>} :
                        watcherBuildEnds(w, errs)
    \/ ret = NoRet /\ \E w \in WatcherIds : watcherRecordError(w)
    \/ ret = NoRet /\ \E w \in WatcherIds : attemptRepairLookup(w, 0)
    \/ ret = NoRet /\ \E w \in WatcherIds : watcherRepair(w)
    \/ ret = NoRet /\ \E w \in WatcherIds : watcherTick(w)
    \/ ret = NoRet /\ \E w \in WatcherIds : watcherReturns(w)

SpecWatch == Init /\ [][NextWatch]_vars

(***************************************************************************)
(* The repair specification: one watcher over a project whose builds fail  *)
(* with one error of every kind and whose tests fail with two, with the     *)
(* knowledge store attached or not; beside it the caller learns a command   *)
(* for the pattern of the project and triggers a build, whose repair is the *)
(* first of the behaviour.                                                  *)
(***************************************************************************)
\* watchers started in the repair specification
RepairWatchers == 1

\* the calls of learn_error_pattern: signature, type, language, solution and
\* command
LearnCalls ==
    {<<"Cannot find module", "compile", "typescript", "npm ci", "npm ci">>,
     <<"imported and not used", "compile", "go", "run goimports", "goimports -w .">>,
     <<"", "compile", "go", "", "">>}

\* what the build command of triggerBuild fails with
TriggeredErrors == {<<>>, <<ErrModule>>, <<ErrUndefined, ErrPyModule>>}

\* the calls of learn_error_pattern beside a watcher
RepairLearnCalls ==
    {<<"Cannot find module", "compile", "typescript", "npm ci", "npm ci">>,
     <<"", "compile", "go", "", "">>}

\* the time up to which learn_error_pattern is called beside a watcher
RepairLearnClock == 1

\* the repairs after which the caller triggers no build beside a watcher
RepairBuilds == 1

\* what the build command and the test command of a watcher fail with
RepairBuildErrors == {<<>>, <<ErrUndefined>>, <<ErrModule>>, <<ErrModuleBare>>,
                      <<ErrPyModule>>, <<ErrGeneric>>}
RepairTestErrors == {<<>>, <<ErrUndefined, ErrGeneric>>}

NextRepair ==
    \/ callerTakesResult
    \/ ret = NoRet /\ InitKnowledgeDB
    \/ ret = NoRet /\ Cardinality(Allocated) < RepairWatchers
                   /\ \E testArg \in {"", "npm test"} : startWatch("", testArg, "unknown")
    \/ ret = NoRet /\ stopWatch
    \/ ret = NoRet /\ \E w \in WatcherIds : watcherRun(w)
    \/ ret = NoRet /\ \E w \in WatcherIds : watcherFirstCycle(w)
    \/ ret = NoRet /\ \E w \in WatcherIds, errs \in RepairBuildErrors :
                        watcherBuildEnds(w, errs)
    \/ ret = NoRet /\ \E w \in WatcherIds : watcherRecordError(w)
    \/ ret = NoRet /\ \E r \in Runners : attemptRepairSteps(r)
    \/ ret = NoRet /\ \E w \in WatcherIds : watcherRepair(w)
    \/ ret = NoRet /\ Now(patterns) <= RepairLearnClock
                   /\ \E p \in RepairLearnCalls :
                         learnErrorPattern(p[1], p[2], p[3], p[4], p[5])
    \/ ret = NoRet /\ Len(repairLog) < RepairBuilds
                   /\ \E failed \in BOOLEAN, errs \in {<<>>, <<ErrUndefined>>} :
                         triggerBuild(failed, errs)
    \/ ret = NoRet /\ buildCallRepaired
    \/ ret = NoRet /\ \E w \in WatcherIds, errs \in RepairTestErrors :
                        watcherTestEnds(w, errs)
    \/ ret = NoRet /\ \E w \in WatcherIds : watcherRecordTestError(w)
    \/ ret = NoRet /\ \E w \in WatcherIds : watcherTick(w)
    \/ ret = NoRet /\ \E w \in WatcherIds : watcherReturns(w)

SpecRepair == Init /\ [][NextRepair]_vars

(***************************************************************************)
(* The diagnosis specification: the tools of the caller's thread that      *)
(* read and write the knowledge store, without a watcher: every call of     *)
(* LearnCalls, builds that fail with the errors of TriggeredErrors, and     *)
(* diagnoseError on the texts of DiagnoseCalls, with and without repair.    *)
(***************************************************************************)
NextDiagnose ==
    \/ callerTakesResult
    \/ ret = NoRet /\ InitKnowledgeDB
    \/ ret = NoRet /\ \E p \in LearnCalls : learnErrorPattern(p[1], p[2], p[3], p[4], p[5])
    \/ ret = NoRet /\ \E failed \in BOOLEAN, errs \in TriggeredErrors :
                        triggerBuild(failed, errs)
    \/ ret = NoRet /\ \E c \in DiagnoseCalls, autoRepair \in BOOLEAN :
                        diagnoseError(c[1], autoRepair, c[2])
    \/ ret = NoRet /\ diagnoseErrorLookup
    \/ ret = NoRet /\ attemptRepairSteps(0)
    \/ ret = NoRet /\ buildCallRepaired

SpecDiagnose == Init /\ [][NextDiagnose]_vars

(***************************************************************************)
(* The stop specification: one watcher at a time, with or without a test   *)
(* command, whose builds and tests pass or fail with one error that no      *)
(* repair fixes, under a scheduler that lets every goroutine go on, however *)
(* often the caller calls in between, and a select that does not pass over  *)
(* a case that is ready again and again (watch.go:345-354).                *)
(***************************************************************************)
\* The steps of the goroutine of a watcher that end by themselves: the build
\* and the test command end (each runs under a timeout of two minutes,
\* watch.go:403-415), their errors are recorded and repaired
WatcherProgress(w) ==
    \/ watcherRun(w)
    \/ watcherFirstCycle(w)
    \/ \E errs \in {<<>>, <<ErrGeneric>>} : watcherBuildEnds(w, errs)
    \/ watcherRecordError(w)
    \/ attemptRepairLookup(w, 0)
    \/ watcherRepair(w)
    \/ \E errs \in {<<>>, <<ErrGeneric>>} : watcherTestEnds(w, errs)
    \/ watcherRecordTestError(w)

NextStop ==
    \/ callerTakesResult
    \/ ret = NoRet /\ Cardinality(Allocated) < RepairWatchers
                   /\ \E testArg \in {"", "npm test"} : startWatch("", testArg, "unknown")
    \/ ret = NoRet /\ stopWatch
    \/ ret = NoRet /\ \E w \in WatcherIds : WatcherProgress(w)
    \/ ret = NoRet /\ \E w \in WatcherIds : watcherTick(w)
    \/ ret = NoRet /\ \E w \in WatcherIds : watcherReturns(w)

SpecStop ==
    /\ Init
    /\ [][NextStop]_vars
    /\ WF_vars(callerTakesResult)
    /\ \A w \in 1..RepairWatchers : SF_vars(ret = NoRet /\ WatcherProgress(w))
    /\ \A w \in 1..RepairWatchers : SF_vars(ret = NoRet /\ watcherReturns(w))

(***************************************************************************)
(* The dispatcher specification: ExecuteTool called with every name of      *)
(* ToolNames and every argument string of ArgumentStrings, beside the       *)
(* background commands that list_tasks reports.                            *)
(***************************************************************************)
ToolNames == {AvailableTools[j] : j \in DOMAIN AvailableTools} \cup {"no_such_tool"}

NextTool ==
    \/ callerTakesResult
    \/ ret = NoRet /\ caller.pc = "idle"
                   /\ \E env \in Environments, name \in ToolNames,
                         arguments \in ArgumentStrings :
                        callExecuteTool(env, name, arguments)
    \/ ret = NoRet /\ \E c \in BOOLEAN : runBackground(c)
    \/ ret = NoRet /\ \E id \in 0..MaxTasks : killTask(id)
    \/ ret = NoRet /\ killTaskReturn
    \/ ret = NoRet /\ checkTaskReturn
    \/ ret = NoRet /\ \E t \in TaskIds, e \in {"", "exit status 1"} :
                        runBackgroundExit(t, e)
    \/ ret = NoRet /\ \E t \in TaskIds : runBackgroundStatus(t)
    \/ ret = NoRet /\ portScanSpawn
    \/ ret = NoRet /\ \E open \in BOOLEAN : portScanDial(open)
    \/ ret = NoRet /\ portScanReturn
    \/ ret = NoRet /\ lanScanSpawn
    \/ ret = NoRet /\ lanScanTimeout
    \/ ret = NoRet /\ lanWorkerCtxDone
    \/ ret = NoRet /\ lanWorkerAcquire
    \/ ret = NoRet /\ \E open \in BOOLEAN : lanWorkerDial(open)
    \/ ret = NoRet /\ lanScanReturn

SpecTool == Init /\ [][NextTool]_vars

(***************************************************************************)
(* The query specification: Query calls of the top-level client, with      *)
(* every kind of provider response; every provider request and tool call   *)
(* returns.                                                                *)
(***************************************************************************)
\* Query calls of one behaviour of the query specification
FairQueries == 2

QueryNext ==
    \/ querySend
    \/ \E r \in HttpResponses(LoopCalls(q.i)) : queryReceive(r)
    \/ queryTool
    \/ queryMaxIterationsReached

NextQuery ==
    \/ callerTakesResult
    \/ ret = NoRet /\ \E text \in {"what is in go.mod", "and in go.sum"} :
                        Query(text, FairQueries)
    \/ ret = NoRet /\ ClearMemory
    \/ ret = NoRet /\ querySend
    \/ ret = NoRet /\ \E r \in HttpResponses(LoopCalls(q.i)) : queryReceive(r)
    \/ ret = NoRet /\ queryTool
    \/ ret = NoRet /\ queryMaxIterationsReached

SpecQuery ==
    /\ Init
    /\ [][NextQuery]_vars
    /\ WF_vars(callerTakesResult)
    /\ WF_vars(ret = NoRet /\ QueryNext)

(***************************************************************************)
(* The specification of the first definition of the background commands:   *)
(* commands started, read and killed while their goroutines run.           *)
(***************************************************************************)
NextTaskV1 ==
    \/ callerTakesResult
    \/ ret = NoRet /\ \E c \in BOOLEAN : runBackground(c)
    \/ ret = NoRet /\ \E id \in 0..MaxTasks : checkTask(id)
    \/ ret = NoRet /\ checkTaskReturn
    \/ ret = NoRet /\ \E id \in 0..MaxTasks : killTaskV1(id)
    \/ ret = NoRet /\ \E t \in TaskIds, e \in {"", "exit status 1"} :
                        runBackgroundExitV1(t, e)
    \/ ret = NoRet /\ \E t \in TaskIds : runBackgroundStatusV1(t)

SpecTaskV1 == Init /\ [][NextTaskV1]_vars

(***************************************************************************)
(* The backend specification: clients made for every configuration of      *)
(* BackendConfigs, and their Query calls.                                  *)
(***************************************************************************)
\* Query calls of one client of the backend specification
BackendQueries == 1

BackendConfigs ==
    {[DefaultConfig EXCEPT !.Provider = p, !.Endpoint = e] :
        p \in {"openai", "ollama-cloud"},
        e \in {EndpointOpenAI, EndpointLocal, EndpointCloud, EndpointAzure,
               EndpointUnparsable}}

NextBackend ==
    \/ callerTakesResult
    \/ ret = NoRet /\ \E cfg \in BackendConfigs, dbOpens, created \in BOOLEAN :
                        NewLLMClient(cfg, dbOpens, created)
    \/ ret = NoRet /\ ClearMemory
    \/ ret = NoRet /\ Query("what is in go.mod", BackendQueries)
    \/ ret = NoRet /\ querySend
    \/ ret = NoRet /\ \E r \in HttpResponses(LoopCalls(q.i)) : queryReceive(r)
    \/ ret = NoRet /\ queryTool
    \/ ret = NoRet /\ queryMaxIterationsReached
    \/ ret = NoRet /\ queryOllamaSend
    \/ ret = NoRet /\ \E r \in OllamaResponses : queryOllamaReceive(r)

SpecBackend == Init /\ [][NextBackend]_vars

(***************************************************************************)
(* The memory specification: clients of the default configuration over a   *)
(* database whose sessions are written to by their Query calls, renamed,   *)
(* summarised and deleted; the provider answers or fails.                  *)
(***************************************************************************)
NextMemory ==
    \/ callerTakesResult
    \/ ret = NoRet /\ \E dbOpens, created \in BOOLEAN :
                        NewLLMClient(DefaultConfig, dbOpens, created)
    \/ ret = NoRet /\ ClearMemory
    \/ ret = NoRet /\ \E id \in 1..MaxSessions : UpdateSessionTitle(id, "go.mod")
    \/ ret = NoRet /\ \E id \in 1..MaxSessions : UpdateSessionSummary(id, "the module")
    \/ ret = NoRet /\ \E older \in 0..MaxSessions : DeleteOldSessions(older)
    \/ ret = NoRet /\ Query("what is in go.mod", BackendQueries)
    \/ ret = NoRet /\ querySend
    \/ ret = NoRet /\ \E r \in SupResponses({}) : queryReceive(r)

SpecMemory == Init /\ [][NextMemory]_vars

(***************************************************************************)
(* The specifications of the pure functions start from the initial state   *)
(* of the program with a call that has not been made yet, and make it.     *)
(***************************************************************************)
InitProgram ==
    /\ InitAgents /\ InitTasks /\ InitCaller /\ InitQuery /\ InitWatch
    /\ InitClient /\ InitScan

\* A call of fn on arg that has not been made yet
Pending(fn, arg) == [fn |-> fn, arg |-> arg, val |-> <<>>, done |-> FALSE]

\* Sequences over S of length 0..n
SeqsUpTo(S, n) == UNION {[1..k -> S] : k \in 0..n}

(***************************************************************************)
(* The stream specification: processOllamaStream and processOpenAIStream   *)
(* on every stream of up to MaxStreamLines lines, whose last line ends     *)
(* with a newline or not.                                                  *)
(***************************************************************************)
\* lines of a stream
MaxStreamLines == 3

Streams(lineSet) ==
    {[lines |-> ls, terminated |-> t] :
        ls \in SeqsUpTo(lineSet, MaxStreamLines), t \in BOOLEAN}

InitStream ==
    /\ InitProgram
    /\ call \in {Pending("processOllamaStream", st) : st \in Streams(OllamaLines)}
            \cup {Pending("processOpenAIStream", st) : st \in Streams(OpenAILines)}

callProcessOllamaStream ==
    /\ call.fn = "processOllamaStream"
    /\ ~call.done
    /\ call' = [call EXCEPT !.val = processOllamaStream(call.arg), !.done = TRUE]
    /\ UNCHANGED <<agentVars, taskVars, callerVars, queryVars, watchVars, clientVars,
                   netVars>>

callProcessOpenAIStream ==
    /\ call.fn = "processOpenAIStream"
    /\ ~call.done
    /\ call' = [call EXCEPT !.val = processOpenAIStream(call.arg), !.done = TRUE]
    /\ UNCHANGED <<agentVars, taskVars, callerVars, queryVars, watchVars, clientVars,
                   netVars>>

NextStream == callProcessOllamaStream \/ callProcessOpenAIStream

SpecStream == InitStream /\ [][NextStream]_vars

(***************************************************************************)
(* The auth specification: the auth header of a request of the client, for *)
(* every configuration of AuthConfigs, and of a request of a sub-agent,    *)
(* for those with a key (spawnAgent refuses the others).                   *)
(***************************************************************************)
AuthConfigs ==
    {[Provider |-> "openai", Endpoint |-> e, Auth |-> k, AuthHeader |-> h] :
        e \in {EndpointOpenAI, EndpointLocal, EndpointCloud, EndpointAzure},
        k \in {"", "sk-key"}, h \in HeaderNames}

InitAuth ==
    /\ InitProgram
    /\ call \in {Pending("createRequest", cfg) : cfg \in AuthConfigs}
            \cup {Pending("runAgent", cfg) : cfg \in {c \in AuthConfigs : c.Auth # ""}}

callCreateRequest ==
    /\ call.fn = "createRequest"
    /\ ~call.done
    /\ call' = [call EXCEPT !.val = createRequestAuth(call.arg), !.done = TRUE]
    /\ UNCHANGED <<agentVars, taskVars, callerVars, queryVars, watchVars, clientVars,
                   netVars>>

callRunAgentRequest ==
    /\ call.fn = "runAgent"
    /\ ~call.done
    /\ call' = [call EXCEPT
                  !.val = runAgentAuth(call.arg.Endpoint, call.arg.Auth,
                                       call.arg.AuthHeader),
                  !.done = TRUE]
    /\ UNCHANGED <<agentVars, taskVars, callerVars, queryVars, watchVars, clientVars,
                   netVars>>

NextAuth == callCreateRequest \/ callRunAgentRequest

SpecAuth == InitAuth /\ [][NextAuth]_vars

(***************************************************************************)
(* The parser specification: parseGoErrors and parsePythonErrors on every  *)
(* output of up to MaxOutputLines lines.                                   *)
(***************************************************************************)
\* lines of an output
MaxOutputLines == 3

InitParse ==
    /\ InitProgram
    /\ call \in {Pending("parseGoErrors", out) : out \in SeqsUpTo(GoLines, MaxOutputLines)}
            \cup {Pending("parsePythonErrors", out) :
                     out \in SeqsUpTo(PyLines, MaxOutputLines)}

callParseGoErrors ==
    /\ call.fn = "parseGoErrors"
    /\ ~call.done
    /\ call' = [call EXCEPT !.val = parseGoErrors(call.arg), !.done = TRUE]
    /\ UNCHANGED <<agentVars, taskVars, callerVars, queryVars, watchVars, clientVars,
                   netVars>>

callParsePythonErrors ==
    /\ call.fn = "parsePythonErrors"
    /\ ~call.done
    /\ call' = [call EXCEPT !.val = parsePythonErrors(call.arg), !.done = TRUE]
    /\ UNCHANGED <<agentVars, taskVars, callerVars, queryVars, watchVars, clientVars,
                   netVars>>

NextParse == callParseGoErrors \/ callParsePythonErrors

SpecParse == InitParse /\ [][NextParse]_vars

(***************************************************************************)
(* The token specification: one agent whose responses report a usage of    *)
(* UsageReports, and that can be cancelled.                                *)
(***************************************************************************)
(* The clearing specification: agents are spawned, cancelled and run to    *)
(* their end while the caller clears the finished ones and counts the      *)
(* active ones.                                                            *)
(***************************************************************************)
NextClear ==
    \/ callerTakesResult
    \/ ret = NoRet /\ InitAgentConfig("https://llm.example/v1/chat", "sk-key")
    \/ ret = NoRet /\ spawnAgent("list the files")
    \/ ret = NoRet /\ \E id \in AgentIds : cancelAgent(id)
    \/ ret = NoRet /\ cancelAgentReturn
    \/ ret = NoRet /\ ClearCompletedAgents
    \/ ret = NoRet /\ GetActiveAgentCount
    \/ ret = NoRet /\ \E a \in AgentIds : runAgentCancelled(a)
    \/ ret = NoRet /\ \E a \in AgentIds : runAgentSend(a)
    \/ ret = NoRet /\ \E a \in AgentIds :
                        \E r \in SupResponses(SupCalls(a)) : runAgentReceive(a, r)
    \/ ret = NoRet /\ \E a \in AgentIds, whole \in BOOLEAN : runAgentResponse(a, whole)
    \/ ret = NoRet /\ \E a \in AgentIds : runAgentTool(a)
    \/ ret = NoRet /\ \E a \in AgentIds : runAgentDeferred(a)

SpecClear == Init /\ [][NextClear]_vars

(***************************************************************************)
UsageReports == {0, ResponseTokens, 65}

\* The responses of HttpResponses with every usage
UsageResponses ==
    {TransportError}
    \cup {[r EXCEPT !.usage = u] :
             r \in HttpResponses({<<SimpleCall>>}) \ {TransportError}, u \in UsageReports}

NextTokens ==
    \/ callerTakesResult
    \/ ret = NoRet /\ \E e \in Endpoints \ {""} : InitAgentConfig(e, "sk-key")
    \/ ret = NoRet /\ agentCounter < LoopAgents /\ spawnAgent("list the files")
    \/ ret = NoRet /\ \E id \in LoopIds : cancelAgent(id)
    \/ ret = NoRet /\ cancelAgentReturn
    \/ ret = NoRet /\ \E a \in LoopIds : runAgentCancelled(a)
    \/ ret = NoRet /\ \E a \in LoopIds : runAgentRequestError(a)
    \/ ret = NoRet /\ \E a \in LoopIds : runAgentSend(a)
    \/ ret = NoRet /\ \E a \in LoopIds : \E r \in UsageResponses : runAgentReceive(a, r)
    \/ ret = NoRet /\ \E a \in LoopIds, whole \in BOOLEAN : runAgentResponse(a, whole)
    \/ ret = NoRet /\ \E a \in LoopIds : runAgentTool(a)
    \/ ret = NoRet /\ \E a \in LoopIds : runAgentMaxIterations(a)
    \/ ret = NoRet /\ \E a \in LoopIds : runAgentDeferred(a)

SpecTokens == Init /\ [][NextTokens]_vars

(***************************************************************************)
(* The pattern specification: FindMatchingErrorPatterns on every table of  *)
(* up to MaxPatternRows of the rows of PatternRows, for an error text, a    *)
(* project scope or none, and the limits its callers pass.                  *)
(***************************************************************************)
\* A row of error_patterns
PatternRow(signature, project, success, used) ==
    [signature |-> signature, error_type |-> "compile", language |-> "go",
     root_cause |-> "", solution |-> "declare the identifier", command |-> "",
     success_count |-> success, failure_count |-> 0, last_used |-> used,
     project |-> project]

PatternRows ==
    {PatternRow("undefined", "", 2, 1),
     PatternRow("undefined", "/work/app", 1, 2),
     PatternRow("undefined: foo", "/work/app", 1, 2),
     PatternRow("undefined", "/work/other", 3, 0),
     PatternRow("undefined: foo in main.go", "/work/other", 1, 3),
     PatternRow("Cannot find module", "", 4, 0)}

\* The tables: no row twice
PatternTables ==
    {t \in SeqsUpTo(PatternRows, MaxPatternRows) :
        \A i, j \in DOMAIN t : i # j => t[i] # t[j]}

\* watch.go:311, watch.go:650: the limits 3 and 1
PatternLimits == {1, 2, 3}

InitPattern ==
    /\ InitProgram
    /\ call \in {Pending("FindMatchingErrorPatterns", <<t, e, scope, limit>>) :
                    t \in PatternTables,
                    e \in {"undefined: foo", "Cannot find module 'left-pad'"},
                    scope \in {"", ProjectPath}, limit \in PatternLimits}

callFindMatchingErrorPatterns ==
    /\ call.fn = "FindMatchingErrorPatterns"
    /\ ~call.done
    /\ \E rows \in FindMatchingErrorPatterns(call.arg[1], call.arg[2], call.arg[3],
                                             call.arg[4]) :
          call' = [call EXCEPT !.val = rows, !.done = TRUE]
    /\ UNCHANGED <<agentVars, taskVars, callerVars, queryVars, watchVars, clientVars,
                   netVars>>

NextPattern == callFindMatchingErrorPatterns

SpecPattern == InitPattern /\ [][NextPattern]_vars

\* the scan specification
SpecScan == Init /\ [][NextScan]_vars

(***************************************************************************)
(* The fair scan specification: the scheduler lets every goroutine of a    *)
(* scan go on and every dial ends (net.DialTimeout, docs.go:1099, 1196).   *)
(* In a range wider than the semaphore every host answers before the       *)
(* deadline, so that nothing but the scan itself lets a goroutine          *)
(* through; in the other ranges and in port scans any host or port may     *)
(* answer, and the deadline may pass.                                      *)
(***************************************************************************)
\* The steps of a scan that the scheduler owes
ScanProgress ==
    \/ portScanSpawn
    \/ \E open \in BOOLEAN : portScanDial(open)
    \/ portScanReturn
    \/ lanScanSpawn
    \/ lanWorkerCtxDone
    \/ lanWorkerAcquire
    \/ \E open \in IF scan.n > PoolWidth THEN {TRUE} ELSE BOOLEAN : lanWorkerDial(open)
    \/ lanScanReturn

NextScanFair ==
    \/ callerTakesResult
    \/ ret = NoRet /\ \E host \in {"", "10.0.0.5"}, portsStr \in PortsArguments :
                        portScan(host, portsStr)
    \/ ret = NoRet /\ \E cidrArg \in CidrArguments, local \in LocalCIDRs :
                        lanScan(cidrArg, local)
    \/ ret = NoRet /\ scan.n <= PoolWidth /\ lanScanTimeout
    \/ ret = NoRet /\ ScanProgress

SpecScanFair ==
    /\ Init
    /\ [][NextScanFair]_vars
    /\ WF_vars(callerTakesResult)
    /\ WF_vars(ret = NoRet /\ ScanProgress)

(***************************************************************************)
(* The claims.                                                             *)
(***************************************************************************)
AgentTerminal == {"completed", "failed", "cancelled"}
TaskTerminal == {"completed", "failed", "killed"}

\* The names of the declared agent-management tools
AgentToolNames == {AgentTools[j] : j \in DOMAIN AgentTools}

Increasing(ids) ==
    \A i, j \in DOMAIN ids : i < j => Suffix(ids[i]) < Suffix(ids[j])

\* C1: the numeric suffix of every issued agent ID is greater than that of
\* every agent ID issued before it, and likewise for task IDs; so no ID is
\* issued twice, also not after ClearCompletedAgents removed its agent.
C1_IdsStrictlyIncreasing ==
    /\ Increasing(issuedAgents)
    /\ Increasing(issuedTasks)
    /\ \A i \in DOMAIN issuedAgents : issuedAgents[i][1] = "agent"
    /\ \A i \in DOMAIN issuedTasks : issuedTasks[i][1] = "task"

\* spawnAgent has just issued a second ID after the first agent was cleared,
\* and two task IDs are out
C1_Witness ==
    /\ ret.op = "spawn_agent"
    /\ ret.id = 2
    /\ 1 \notin agentTasks
    /\ Len(issuedTasks) = 2

AgentStatusStep(a) ==
    /\ agents[a].Status = "" /\ agents'[a].Status # "" => agents'[a].Status = "running"
    /\ agents[a].Status = "running" => agents'[a].Status \in {"running"} \cup AgentTerminal
    /\ agents[a].Status \in AgentTerminal =>
          /\ agents'[a].Status = agents[a].Status
          /\ agents'[a].Result = agents[a].Result
          /\ agents'[a].Error = agents[a].Error

TaskStatusStep(t) ==
    /\ tasks[t].Status = "" /\ tasks'[t].Status # "" => tasks'[t].Status = "running"
    /\ tasks[t].Status = "running" => tasks'[t].Status \in {"running"} \cup TaskTerminal
    /\ tasks[t].Status \in TaskTerminal =>
          /\ tasks'[t].Status = tasks[t].Status
          /\ tasks'[t].Output = tasks[t].Output
          /\ tasks'[t].Error = tasks[t].Error

\* C2: an agent and a command start as running, the status changes at most
\* once, to a terminal value of its kind, and once it is terminal no step
\* changes the status, the result or output, or the error text.
C2_StatusWrittenOnce ==
    [][/\ \A a \in AgentIds : AgentStatusStep(a)
       /\ \A t \in TaskIds : TaskStatusStep(t)]_vars

\* a cancelled agent and a failed one, both finished, the first removed from
\* the registry, beside a killed command
C2_Witness ==
    /\ agents[1].Status = "cancelled" /\ agents[1].Done /\ 1 \notin agentTasks
    /\ agents[2].Status = "failed" /\ agents[2].Done
    /\ tasks[1].Status = "killed"
    /\ tasks[2].Status = "completed"

\* C3: once cancel() was invoked on an agent whose status was running, the
\* agent's terminal status is cancelled.
C3_CancelledEndsCancelled ==
    \A a \in AgentIds :
        hist[a].cancelReq /\ agents[a].Status # "running" => agents[a].Status = "cancelled"

\* C4: cancelAgent or killTask on a task whose status was terminal at the call
\* answers with that status and has not invoked the cancellation handle.
C4_CancelTerminalIsNoOp ==
    ret.op \in {"cancel_agent", "kill_task"} /\ ret.err = ""
                                             /\ ret.pre \in AgentTerminal \cup TaskTerminal
        => /\ ret.msg = "already finished with status"
           /\ ret.status = ret.pre
           /\ ~ret.invoked

\* C5: a waitForAgent that returns the timeout error has changed no field of
\* an agent, cancelled no context and removed nothing; no agent ends as
\* cancelled unless cancelAgent was called on it while it ran; and what a
\* getAgentResult called on a finished agent returns is its status and result.
C5_WaitTimeoutLeavesAgent ==
    /\ [][ret'.op = "wait_for_agent" /\ ret'.err = "timeout" /\ ret' # ret
             => /\ agents' = agents
                /\ ctx' = ctx
                /\ run' = run
                /\ agentTasks' = agentTasks]_vars
    /\ [](\A a \in AgentIds : agents[a].Status = "cancelled" => hist[a].cancelReq)
    /\ [](ret.op = "get_agent_result" /\ ret.err = "" /\ ret.done
             => /\ ret.status = agents[ret.id].Status
                /\ ret.result = agents[ret.id].Result
                /\ ret.msg = "Duration")

\* waitForAgent has returned the timeout error for an agent that is running,
\* after at least one poll
C5_Witness ==
    /\ ret.op = "wait_for_agent"
    /\ ret.err = "timeout"
    /\ agents[ret.id].Status = "running"
    /\ hist[ret.id].calls > 0

\* A transcript is paired when every assistant message is followed at once by
\* one tool message per tool call, in the order of the calls and under their
\* IDs, and no other tool message occurs
RECURSIVE Paired(_)
Paired(m) ==
    IF m = <<>> THEN TRUE
    ELSE LET h == Head(m)
             n == Len(h.tool_calls)
         IN IF h.role = "tool" THEN FALSE
            ELSE /\ Len(m) >= 1 + n
                 /\ \A j \in 1..n : /\ m[1 + j].role = "tool"
                                    /\ m[1 + j].tool_call_id = h.tool_calls[j].id
                 /\ Paired(SubSeq(m, n + 2, Len(m)))

HasContent(m, text) == \E j \in DOMAIN m : m[j].content = text

\* C6: every transcript that runAgent or queryWithTools has sent to the
\* provider holds, right after each assistant tool-call message, exactly one
\* tool message per call of it, in the order of the calls and under their IDs,
\* also for the calls that failed or were declined.
C6_TranscriptPaired ==
    /\ \A a \in AgentIds : run[a].pc = "http" => Paired(run[a].msgs)
    /\ q.pc = "http" => Paired(qmsgs \o q.msgs)

\* the agent and the query have both sent a second request, the agent's with a
\* failed and a declined call answered, the query's with a failed call answered
C6_Witness ==
    /\ run[1].pc = "http"
    /\ Len(run[1].msgs) = 3
    /\ HasContent(run[1].msgs, DeclineText)
    /\ HasContent(run[1].msgs, "Error: cannot access nofile")
    /\ q.pc = "http"
    /\ HasContent(q.msgs, "Error: invalid arguments")

\* C7: no request of a sub-agent offers an agent-management tool, and a call
\* to one executes no handler, leaves the decline message under the call's ID
\* in the transcript and lets the agent go on running.
C7_NoAgentToolsForSubAgents ==
    /\ [](\A a \in AgentIds : \A j \in DOMAIN hist[a].offered :
              hist[a].offered[j] \notin AgentToolNames)
    /\ [][\A a \in AgentIds :
             (/\ run[a].pc = "tools"
              /\ run[a].calls[run[a].k].name \in AgentToolNames
              /\ run'[a] # run[a])
             => /\ hist'[a].execs = hist[a].execs
                /\ run'[a].msgs =
                      Append(run[a].msgs, ToolMsg(run[a].calls[run[a].k].id, DeclineText))
                /\ run'[a].pc \in {"tools", "select"}
                /\ agents'[a].Status = "running"]_vars

\* an agent has sent its second request after a call to an agent-management
\* tool was declined
C7_Witness ==
    /\ hist[1].calls = 2
    /\ run[1].pc = "http"
    /\ HasContent(run[1].msgs, DeclineText)
    /\ hist[1].offered # <<>>
    /\ agents[1].Status = "running"

\* C8: an agent makes at most maxIterations provider calls; an agent whose
\* every response carried tool calls ends as completed with the text about
\* the maximum of iterations and with Done set; and every running agent gets
\* Done set.
C8_IterationCap ==
    /\ [](\A a \in AgentIds : hist[a].calls <= maxIterations)
    /\ [](\A a \in AgentIds :
              run[a].pc \in {"defer", "done"} /\ run[a].i = maxIterations
                  => /\ agents[a].Status = "completed"
                     /\ agents[a].Result = MaxIterText
                     /\ agents[a].Error = "")
    /\ [](\A a \in AgentIds : run[a].pc = "done" => agents[a].Done)
    /\ \A a \in LoopIds : (agents[a].Status = "running") ~> agents[a].Done

\* an agent has finished after fifteen responses with tool calls
C8_Witness ==
    /\ run[1].pc = "done"
    /\ hist[1].calls = maxIterations
    /\ run[1].i = maxIterations
    /\ agents[1].Result = MaxIterText
    /\ agents[1].Done

\* The failure conditions of runAgent, as recorded of the agent's last
\* iteration; okStatus is the set of response statuses that are no failure
FailureOccurred(a, okStatus) ==
    \/ hist[a].reqerr
    \/ hist[a].resp.transport = "error"
    \/ /\ hist[a].resp.transport = "ok"
       /\ \/ hist[a].resp.status \notin okStatus
          \/ hist[a].resp.body = "garbage"
          \/ Len(hist[a].resp.choices) = 0

\* C9 as stated: an agent that has ended is failed exactly when the request
\* could not be built, the transport failed, the response status was not
\* 2xx, the body did not parse or the choice list was empty.
C9_FailedIffNot2xx ==
    \A a \in AgentIds :
        run[a].pc \in {"defer", "done"}
            => (agents[a].Status = "failed" <=> FailureOccurred(a, 200..299))

\* C9, amended: an agent that has ended is failed exactly when the request
\* could not be built, the transport failed, the response status was not 200,
\* the body did not parse or the choice list was empty; and a failed agent
\* makes no further provider call and executes no further tool.
C9_FailedIffNot200 ==
    /\ [](\A a \in AgentIds :
              run[a].pc \in {"defer", "done"}
                  => (agents[a].Status = "failed" <=> FailureOccurred(a, {200})))
    /\ [][\A a \in AgentIds :
             agents[a].Status = "failed"
                 => /\ hist'[a].calls = hist[a].calls
                    /\ hist'[a].execs = hist[a].execs
                    /\ run'[a].msgs = run[a].msgs]_vars

\* an agent has failed on a 201 response after a round of tool calls
C9_Witness ==
    /\ agents[1].Status = "failed"
    /\ agents[1].Done
    /\ hist[1].resp.transport = "ok"
    /\ hist[1].resp.status = 201
    /\ hist[1].calls = 2
    /\ hist[1].execs > 0

\* The watcher goroutines that have not returned and were not told to stop
LiveWatchers ==
    {w \in WatcherIds : /\ watchers[w].pc \notin {"none", "returned"}
                        /\ ~watchers[w].cancelled}

\* C10: at no time are two watcher goroutines alive.
C10_AtMostOneWatcher == Cardinality(LiveWatchers) <= 1

\* A watcher is active from the startWatch that made it until the stopWatch
\* that cancels it
WatcherActive ==
    /\ activeWatcher # 0
    /\ watchers[activeWatcher].pc \notin {"none", "returned"}

\* C11: a startWatch call made while a watcher is active returns the text
\* 'Watcher already running. Use stop_watch first.' without an error, starts
\* no goroutine and leaves activeWatcher and every watcher as they were.
C11_SecondStartRejected ==
    [][(WatcherActive /\ ret = NoRet /\ ret'.op = "start_watch")
          => /\ ret'.msg = "Watcher already running. Use stop_watch first."
             /\ ret'.err = ""
             /\ activeWatcher' = activeWatcher
             /\ watchers' = watchers]_vars

\* C12: stopWatch leaves the command in flight and the position of every
\* goroutine as they were, and a cancelled watcher starts no further build
\* cycle.
C12_StopLetsCycleFinish ==
    [][/\ (ret = NoRet /\ ret'.op = "stop_watch")
            => \A w \in WatcherIds : /\ watchers'[w].pc = watchers[w].pc
                                     /\ watchers'[w].cycles = watchers[w].cycles
                                     /\ watchers'[w].pending = watchers[w].pending
       /\ \A w \in WatcherIds :
            watchers[w].cancelled => watchers'[w].cycles = watchers[w].cycles]_vars

\* C13: every error of a failing test command is appended to the error
\* history with the type test, and nothing else is done with it; no
\* attemptRepair is called on an error of type test and no RepairResult
\* refers to one.
C13_TestErrorsNotRepaired ==
    /\ [][\A w \in WatcherIds :
             (watchers[w].pc = "testerror" /\ watchers'[w].pending # watchers[w].pending)
                => /\ watchers'[w].errorHistory =
                         Append(watchers[w].errorHistory,
                                [Head(watchers[w].pending) EXCEPT !.Type = "test"])
                   /\ watchers'[w].repairHistory = watchers[w].repairHistory
                   /\ repairLog' = repairLog
                   /\ patterns' = patterns]_vars
    /\ [](\A w \in WatcherIds : \A j \in DOMAIN watchers[w].repairHistory :
              watchers[w].repairHistory[j].Error.Type # "test")
    /\ [](\A j \in DOMAIN repairLog : repairLog[j].error.Type # "test")

\* a cycle has ended whose build error was repaired and whose two test errors
\* are in the error history
C13_Witness ==
    /\ watchers[1].pc = "select"
    /\ Len(watchers[1].repairHistory) = 1
    /\ Len(watchers[1].errorHistory) = 3
    /\ watchers[1].errorHistory[2].Type = "test"
    /\ watchers[1].errorHistory[3].Type = "test"
    /\ watchers[1].errorHistory[3].Message = "error: build failed"

\* C14: when the store returns a pattern with a solution command and that
\* command exits zero, the RepairResult is a success carrying the pattern's
\* solution and command, RecordErrorPatternResult is called once for that
\* pattern, with success, its success counter grows by one and its failure
\* counter and every other pattern stay as they were.
C14_PatternSuccessRecorded ==
    [][Len(repairLog') = Len(repairLog) + 1
          => LET l == repairLog'[Len(repairLog')]
                 p == l.found
             IN (p # 0 /\ l.row.command # "" /\ l.cmdOk)
                   => /\ l.result.Success
                      /\ l.result.Solution = l.row.solution
                      /\ l.result.Command = l.row.command
                      /\ l.result.Error = l.error
                      /\ l.recorded = <<[id |-> p, success |-> TRUE]>>
                      /\ patterns'[p].success_count = patterns[p].success_count + 1
                      /\ patterns'[p].failure_count = patterns[p].failure_count
                      /\ \A o \in DOMAIN patterns \ {p} : patterns'[o] = patterns[o]]_vars

\* the command of the pattern for undefined identifiers has failed once and
\* succeeded once
C14_Witness ==
    /\ Len(repairLog) = 2
    /\ repairLog[1].found = 1 /\ ~repairLog[1].cmdOk
    /\ repairLog[2].found = 1 /\ repairLog[2].cmdOk
    /\ repairLog[2].result.Success
    /\ patterns[1].success_count = 1
    /\ patterns[1].failure_count = 1

\* C15: tryCommonFixes is called only for an error for which the lookup
\* returned no pattern.
C15_HeuristicsOnlyWithoutMatch ==
    \A j \in DOMAIN repairLog : repairLog[j].heuristics => repairLog[j].found = 0

\* the length the histories are checked against
HistoryBound == 3

\* C16: the error history and the repair history of a watcher never hold more
\* than a fixed number of entries, here HistoryBound.
C16_HistoryBounded ==
    \A w \in WatcherIds : /\ Len(watchers[w].errorHistory) <= HistoryBound
                          /\ Len(watchers[w].repairHistory) <= HistoryBound

\* The argument strings that are a JSON object
JsonObjects == {ArgsOk, ArgsMissing, ArgsEmptyObject, ArgsCommandTrue, ArgsCommandFalse,
                ArgsSshDown, ArgsSshUp, ArgsTask1}

\* What the claim says of a finished ExecuteTool call, for a given set of
\* argument strings that are let through to the switch
RefusesAllBut(accepted) ==
    ret.op = "execute_tool"
        => /\ (ret.arguments \notin accepted \/ ret.name \notin DispatchedTools)
                 => ret.err # "" /\ ret.handler = "" /\ ret.result = ""
           /\ ret.arguments \notin accepted => ret.err = "invalid arguments"

\* C17 as stated: ExecuteTool returns an error and calls no handler whenever
\* the arguments are not the JSON of an object or the name is not dispatched,
\* and arguments that are not the JSON of an object are refused before the
\* name is looked at.
C17_RefusesNonObjects == RefusesAllBut(JsonObjects)

\* C17, amended: ExecuteTool returns an error and calls no handler whenever
\* the arguments are not valid JSON, or are JSON that is neither an object nor
\* null, or the name is not dispatched; such arguments are refused before the
\* name is looked at.
C17_RefusesNonMaps == RefusesAllBut(JsonObjects \cup {ArgsNull})

\* ExecuteTool has refused truncated JSON sent with an unknown name, as
\* invalid arguments
C17_Witness ==
    /\ ret.op = "execute_tool"
    /\ ret.arguments = ArgsMalformed
    /\ ret.name = "no_such_tool"
    /\ ret.err = "invalid arguments"

\* Calls of dispatched tools with well-formed arguments whose handler fails: a
\* path that does not exist, a command that exits non-zero, a host that
\* cannot be reached
HandlerFailures ==
    {<<"read_file", ArgsMissing>>, <<"run_command", ArgsCommandFalse>>,
     <<"ssh_exec", ArgsSshDown>>}

\* C18: a handler-level failure of a dispatched tool called with well-formed
\* arguments comes back as result text with a nil error.
C18_HandlerFailuresAreText ==
    ret.op = "execute_tool" /\ <<ret.name, ret.arguments>> \in HandlerFailures
        => ret.err = "" /\ ret.result # ""

\* A tool call ExecuteTool refuses for its form: arguments that do not parse,
\* or a name that is neither dispatched nor an agent-management tool
StructuralCall(tc) ==
    \/ tc.arguments \in {ArgsMalformed, ArgsEmptyText, ArgsArray}
    \/ tc.name \notin DispatchedTools

\* C19: a tool call with an unknown name or with malformed arguments aborts
\* the loop that received it: the agent ends as failed, the Query returns an
\* error, and no further provider call is made.
C19_StructuralErrorAborts ==
    [][/\ \A a \in AgentIds :
            (/\ run[a].pc = "tools"
             /\ ~isAgentTool(run[a].calls[run[a].k].name)
             /\ StructuralCall(run[a].calls[run[a].k])
             /\ run'[a] # run[a])
            => agents'[a].Status = "failed" /\ run'[a].pc = "defer"
       /\ (q.pc = "tools" /\ StructuralCall(q.calls[q.k]) /\ q' # q)
            => ret'.op = "query" /\ ret'.err # ""]_vars

\* C20: a Query returns either an answer without an error or an error with
\* an empty answer; it makes at most queryMaxIterations provider calls, and
\* running out of them is returned as the error 'max tool iterations
\* reached'; every Query returns.
C20_QueryOutcome ==
    /\ [](ret.op = "query" => /\ ret.err # "" => ret.result = ""
                              /\ ret.count <= queryMaxIterations)
    /\ [](q.sent <= queryMaxIterations)
    /\ [][(q.pc = "send" /\ q.i >= queryMaxIterations /\ q' # q)
             => /\ ret'.op = "query"
                /\ ret'.err = "max tool iterations reached"
                /\ ret'.result = ""
                /\ ret'.count = queryMaxIterations]_vars
    /\ (caller.pc = "query") ~> (ret.op = "query")

\* the second Query has run out of iterations after the first was answered
C20_Witness ==
    /\ ret.op = "query"
    /\ ret.err = "max tool iterations reached"
    /\ ret.count = queryMaxIterations
    /\ Cardinality(UserMessages) = 2
    /\ Len(qmsgs) = 4

\* C21: the report of a status read (getAgentResult, checkTask) is that of one
\* state of the task: status running never comes with the lines of a finished
\* task, and a terminal status never comes with the 'Running for' line.
C21_ReportIsOneState ==
    ret.op \in {"get_agent_result", "check_task"} /\ ret.err = ""
        => /\ ret.status = "running" => ret.msg = "Running for" /\ ret.result = ""
           /\ ret.status # "running" => ret.msg # "Running for"

\* C22: a task that killTask was applied to before it finished ends as
\* killed, and a status killed is never replaced by completed or failed.
C22_KilledStaysKilled ==
    /\ [](\A t \in backgroundTasks :
             taskRun[t].ctx /\ tasks[t].Done => tasks[t].Status = "killed")
    /\ [][\A t \in TaskIds :
             tasks[t].Status = "killed" => tasks'[t].Status = "killed"]_vars

\* The configurations the client takes for an Ollama backend
IsOllama(cfg) == isOllamaLocal(cfg) \/ isOllamaCloud(cfg)

\* The path of Query a backend is given: the Ollama path for an Ollama
\* backend, the tool-calling loop for every other one
BackendPath ==
    /\ [](q.pc \in {"send", "http", "tools"} => ~IsOllama(llmConfig))
    /\ [](q.pc \in {"ollama_send", "ollama_http"} => IsOllama(llmConfig))
    /\ [][caller.pc = "idle" /\ caller'.pc = "query"
             => q'.pc = IF IsOllama(llmConfig) THEN "ollama_send" ELSE "send"]_vars

\* C24 as the claim states it: on an Ollama backend, local or cloud, a Query
\* makes exactly one provider request, without tool schemas, and calls
\* ExecuteTool for nothing the model answers; on every other backend a Query
\* enters the tool-calling loop.
C24_OllamaWithoutTools ==
    /\ [](ret.op = "query" /\ IsOllama(llmConfig)
             => ret.count = 1 /\ ret.offered = <<>> /\ ret.execs = 0)
    /\ BackendPath

\* C24, amended: on an Ollama backend a Query makes exactly one provider
\* request when the endpoint parses as a URL, and none when it does not: it
\* then returns the error of createRequest.  In both cases no tool schemas
\* go out and ExecuteTool is not called; on every other backend a Query
\* enters the tool-calling loop.
C24_OllamaOneRequestIfBuilt ==
    /\ [](ret.op = "query" /\ IsOllama(llmConfig)
             => /\ ret.count = IF ValidURL(llmConfig.Endpoint) THEN 1 ELSE 0
                /\ ~ValidURL(llmConfig.Endpoint)
                      => ret.err = "failed to create request" /\ ret.result = ""
                /\ ret.offered = <<>>
                /\ ret.execs = 0)
    /\ BackendPath

\* a Query on the cloud Ollama has returned the text of its stream after one
\* request
C24_Witness ==
    /\ ret.op = "query"
    /\ llmConfig.Provider = "ollama-cloud"
    /\ llmConfig.Endpoint = EndpointOpenAI
    /\ ret.count = 1
    /\ ret.result = "Hello!"

\* The smallest element of a non-empty set of numbers
Least(S) == CHOOSE x \in S : \A y \in S : x <= y

\* The texts of a sequence, joined
RECURSIVE Joined(_)
Joined(texts) == IF texts = <<>> THEN "" ELSE Head(texts) \o Joined(Tail(texts))

\* Whether a line of a stream carries a fragment, its content, and whether it
\* ends the stream
IsFragment(fn, line) ==
    LET l == TrimSpace(line) IN
    IF fn = "processOllamaStream"
    THEN l # "" /\ UnmarshalOllama(l).ok
    ELSE /\ HasDataPrefix(l)
         /\ l \notin {"data:", OpenAIDone}
         /\ UnmarshalOpenAI(l).ok
         /\ UnmarshalOpenAI(l).choices > 0
FragmentContent(fn, line) ==
    IF fn = "processOllamaStream" THEN UnmarshalOllama(TrimSpace(line)).content
    ELSE UnmarshalOpenAI(TrimSpace(line)).content
EndsStream(fn, line) ==
    IF fn = "processOllamaStream"
    THEN IsFragment(fn, line) /\ UnmarshalOllama(TrimSpace(line)).done
    ELSE TrimSpace(line) = OpenAIDone

\* The complete lines of a stream up to the first fragment marked done, or up
\* to the line before the [DONE] line of an OpenAI stream
Heard(fn, stream) ==
    LET lines == Readable(stream)
        ends == {j \in DOMAIN lines : EndsStream(fn, lines[j])}
    IN IF ends = {} THEN lines
       ELSE SubSeq(lines, 1, IF fn = "processOllamaStream" THEN Least(ends)
                                                          ELSE Least(ends) - 1)

\* The contents of the fragments among those lines
HeardContents(fn, stream) ==
    LET frags == SelectSeq(Heard(fn, stream), LAMBDA line : IsFragment(fn, line))
    IN [k \in DOMAIN frags |-> FragmentContent(fn, frags[k])]

\* C25 as stated: the callback is called once for each line of the stream,
\* each time with a buffer that extends the one before, and the value
\* returned joins the contents of the fragments up to and including the first
\* one marked done.
C25_CallbackPerLine ==
    call.done /\ call.fn \in {"processOllamaStream", "processOpenAIStream"}
        => LET cb == call.val.callbacks IN
           /\ Len(cb) = Len(Heard(call.fn, call.arg))
           /\ \A k \in 2..Len(cb) :
                 \E c \in {"", "Hel", "lo", "!"} : cb[k] = cb[k - 1] \o c
           /\ call.val.data = Joined(HeardContents(call.fn, call.arg))

\* C25, amended: the callback is called once for each line that carries a
\* fragment, with the contents of the fragments so far joined, and the value
\* returned joins the contents of the fragments up to and including the first
\* one marked done.
C25_CallbackPerFragment ==
    call.done /\ call.fn \in {"processOllamaStream", "processOpenAIStream"}
        => LET contents == HeardContents(call.fn, call.arg) IN
           /\ call.val.callbacks =
                 [k \in DOMAIN contents |-> Joined(SubSeq(contents, 1, k))]
           /\ call.val.data = Joined(contents)

\* an Ollama stream with a fragment after the one marked done has been read
C25_Witness ==
    /\ call.done
    /\ call.fn = "processOllamaStream"
    /\ call.arg.lines = <<OllamaHel, OllamaEnd, OllamaLo>>
    /\ call.val.data = "Hel!"
    /\ call.val.callbacks = <<"Hel", "Hel!">>

\* The auth header the claim gives a request, Azure endpoints of the client
\* apart or not
BearerNames == {"Authorization", "authorization", "AUTHORIZATION"}
ClaimedHeader(cfg, azure) ==
    IF azure /\ cfg.AuthHeader = "" /\ cfg.Endpoint = EndpointAzure
    THEN [name |-> "Api-Key", value |-> cfg.Auth]
    ELSE IF cfg.AuthHeader = "" \/ cfg.AuthHeader \in BearerNames
    THEN [name |-> "Authorization", value |-> "Bearer " \o cfg.Auth]
    ELSE [name |-> cfg.AuthHeader, value |-> cfg.Auth]
SameHeader(h1, h2) == ToLower(h1.name) = ToLower(h2.name) /\ h1.value = h2.value

\* C26 as stated: with a key, a request of the client and of a sub-agent
\* carries 'Authorization: Bearer <key>' when no header name is configured or
\* the name is authorization in any case, and the key under the configured
\* name otherwise.
C26_BearerByDefault ==
    call.done /\ call.fn \in {"createRequest", "runAgent"} /\ call.arg.Auth # ""
        => SameHeader(call.val, ClaimedHeader(call.arg, FALSE))

\* C26, amended: as stated, but a request of the client to an endpoint that
\* contains 'openai.azure.com' carries the key under 'Api-Key' when no header
\* name is configured.
C26_BearerByDefaultButAzure ==
    call.done /\ call.fn \in {"createRequest", "runAgent"} /\ call.arg.Auth # ""
        => SameHeader(call.val, ClaimedHeader(call.arg, call.fn = "createRequest"))

\* the client has built a request for a configuration whose header name is
\* AUTHORIZATION
C26_Witness ==
    /\ call.done
    /\ call.fn = "createRequest"
    /\ call.arg.AuthHeader = "AUTHORIZATION"
    /\ call.arg.Auth = "sk-key"
    /\ call.val = [name |-> "Authorization", value |-> "Bearer sk-key"]


\* The ways a line reads as <file>.go:<line>:<col>: <message>: the token p
\* that ends the file name and the token k that begins the message
GoForm(line) ==
    {pk \in (DOMAIN line) \X (DOMAIN line) :
        LET p == pk[1]
            k == pk[2]
        IN /\ line[p] \in GoFileTokens
           /\ p + 6 <= k
           /\ line[p + 1] = ":" /\ line[p + 2] \in DigitTokens
           /\ line[p + 3] = ":" /\ line[p + 4] \in DigitTokens
           /\ line[p + 5] = ":"
           /\ \A m \in (p + 6)..(k - 1) : line[m] \in SpaceTokens}

\* The lines of an output that read so, and the n-th of a set of lines
GoFormLines(output) == {j \in DOMAIN output : GoForm(output[j]) # {}}
NthOf(S, n) == CHOOSE j \in S : Cardinality({k \in S : k <= j}) = n

\* An event reports a line: file, line number and message are those of one of
\* the ways the line reads
ReportsGoLine(e, line) ==
    \E pk \in GoForm(line) :
        /\ e.File = Text(SubSeq(line, 1, pk[1]))
        /\ e.Line = Sscanf(line[pk[1] + 2])
        /\ e.Message = Text(SubSeq(line, pk[2], Len(line)))
        /\ e.Language = "go"

\* C27: for any build output, parseGoErrors yields one ErrorEvent for each
\* line of the form <file>.go:<line>:<col>: <message>, in order, and none for
\* another line, with the file, line number and message of that line and
\* language go; the output main.go:10:2: undefined: foo yields one event with
\* file main.go, line 10 and message undefined: foo.
C27_OneEventPerGoLine ==
    call.fn = "parseGoErrors" /\ call.done =>
        /\ Len(call.val) = Cardinality(GoFormLines(call.arg))
        /\ \A n \in DOMAIN call.val :
              ReportsGoLine(call.val[n], call.arg[NthOf(GoFormLines(call.arg), n)])
        /\ call.arg = <<GoLineUndefined>> =>
              /\ Len(call.val) = 1
              /\ call.val[1].File = "main.go"
              /\ call.val[1].Line = 10
              /\ call.val[1].Message = "undefined: foo"

\* The File lines of an output with the path and the number they name, and
\* the lines that carry SyntaxError: <message>
PyFileForm(line) ==
    {ij \in (DOMAIN line) \X (DOMAIN line) :
        /\ line[ij[1]] = "File \""
        /\ ij[1] + 2 <= ij[2]
        /\ ij[2] < Len(line)
        /\ line[ij[2]] = "\", line "
        /\ line[ij[2] + 1] \in DigitTokens}
PyFileLines(output) == {j \in DOMAIN output : PyFileForm(output[j]) # {}}
PySyntaxLines(output) ==
    {j \in DOMAIN output :
        \E i \in DOMAIN output[j] : output[j][i] = "SyntaxError:" /\ i < Len(output[j])}

\* The SyntaxError lines that a File line precedes, and the most recent
\* File line before a line
PyPreceded(output) ==
    {j \in PySyntaxLines(output) : \E k \in PyFileLines(output) : k < j}
PyRecentFile(output, j) ==
    CHOOSE k \in PyFileLines(output) :
        k < j /\ \A m \in PyFileLines(output) : m < j => m <= k

\* C28: for any output, parsePythonErrors yields one ErrorEvent for each
\* SyntaxError: <message> line that a File "<path>", line <N> line precedes,
\* with the path and the number of the most recent File line before it, and
\* none for a SyntaxError line that no File line precedes.
C28_OneEventPerSyntaxError ==
    call.fn = "parsePythonErrors" /\ call.done =>
        /\ Len(call.val) = Cardinality(PyPreceded(call.arg))
        /\ \A n \in DOMAIN call.val :
              LET j == NthOf(PyPreceded(call.arg), n)
                  file == call.arg[PyRecentFile(call.arg, j)]
              IN /\ \E ij \in PyFileForm(file) :
                       /\ call.val[n].File = Text(SubSeq(file, ij[1] + 1, ij[2] - 1))
                       /\ call.val[n].Line = Sscanf(file[ij[2] + 1])
                 /\ call.val[n].Language = "python"


\* C30: in every state an agent of the map has Done set exactly when its
\* Status is not running: no reader of the map finds a terminal status with
\* Done still false.
C30_DoneIffNotRunning ==
    \A a \in agentTasks : agents[a].Done <=> agents[a].Status # "running"


\* C29: every name of AvailableTools is routed by ExecuteTool to a handler:
\* the unknown tool error is returned only for a name that is not in
\* AvailableTools.
C29_DeclaredToolsAreRouted ==
    ret.op = "execute_tool" /\ ret.err = "unknown tool" =>
        ret.name \notin {AvailableTools[j] : j \in DOMAIN AvailableTools}


\* C23: during a port_scan or a lan_scan the connection attempts in progress
\* at the same time never exceed the pool width of 50, whatever the number of
\* hosts or ports.
C23_DialsWithinPool == scan.dialing <= PoolWidth

\* The watcher of the last startWatch that answered Watch mode started
LastStarted == Cardinality(Allocated)

\* C31: a stopWatch issued after a startWatch has returned Watch mode started,
\* with no other stop in between, cancels that watcher: it never answers No
\* watcher running. while the watcher's goroutine is left to run build cycles.
C31_StopAfterStartCancels ==
    ret.op = "stop_watch" /\ ret.msg = "No watcher running." /\ Allocated # {}
        => watchers[LastStarted].cancelled

\* C32: after stopWatch has cancelled a watcher, the goroutine of that watcher
\* eventually returns, when every build and test command ends and the select
\* is fair to its cancellation case.
C32_CancelledWatcherReturns ==
    \A w \in WatcherIds : watchers[w].cancelled ~> watchers[w].pc = "returned"

\* a watcher that was cancelled in the middle of a cycle with a test command
\* has returned
C32_Witness ==
    \E w \in WatcherIds :
        /\ watchers[w].cancelled
        /\ watchers[w].pc = "returned"
        /\ watchers[w].config.TestCommand # ""
        /\ Len(watchers[w].errorHistory) > 0

\* C33: a waitForAgent that finds its agent done, at the call or at a poll,
\* returns the result of that agent and no timeout error, for every timeout,
\* zero and negative ones too; with an unknown agent id it returns the not
\* found error for every timeout.
C33_WaitOnDoneAgentReturnsResult ==
    [][/\ (caller.pc \in {"idle", "wait_poll"} /\ ret = NoRet
             /\ ret'.op = "wait_for_agent" /\ ret'.id # 0)
          => /\ ret'.id \notin agentTasks => ret'.err = "not found"
             /\ ret'.id \in agentTasks /\ agents[ret'.id].Done
                   => ret'.err = "" /\ ret'.status = agents[ret'.id].Status
       /\ (caller.pc = "wait_result" /\ caller'.pc # "wait_result")
          => IF caller.id \in agentTasks
             THEN caller'.pc = "get_return" /\ ret' = NoRet
             ELSE ret'.err = "not found"
       /\ (caller.pc = "get_return" /\ caller.op = "wait_for_agent"
             /\ caller'.pc = "idle")
          => ret'.err = "" /\ ret'.status = caller.pre]_vars

\* C34: under a project scope that is not empty, every pattern returned by
\* FindMatchingErrorPatterns has that scope as its project path or none, its
\* signature contains the error text or is contained in it, at most limit
\* patterns are returned, and they come by descending success count.
C34_MatchesWithinScope ==
    call.fn = "FindMatchingErrorPatterns" /\ call.done /\ call.arg[3] # "" =>
        /\ \A i \in DOMAIN call.val :
              /\ call.val[i].project \in {call.arg[3], ""}
              /\ \/ Contains(call.arg[2], call.val[i].signature)
                 \/ Contains(call.val[i].signature, call.arg[2])
        /\ Len(call.val) <= call.arg[4]
        /\ \A i, j \in DOMAIN call.val :
              i < j => call.val[i].success_count >= call.val[j].success_count

\* C35: a Query that returns an error leaves the conversation of the client as
\* it was before the call, so that the user message of the failed call is not
\* sent again by the next one; a Query that succeeds adds the user message
\* and, after it, the answer, and nothing else.
C35_FailedQueryLeavesHistory ==
    [][/\ caller.pc = "idle" /\ caller'.pc = "query"
             => /\ Len(qmsgs') = Len(qmsgs) + 1
                /\ SubSeq(qmsgs', 1, Len(qmsgs)) = qmsgs
                /\ qmsgs'[Len(qmsgs')].role = "user"
       /\ caller.pc = "query" /\ caller'.pc = "query" => qmsgs' = qmsgs
       /\ caller.pc = "query" /\ ret'.op = "query" /\ ret'.err = ""
             => qmsgs' = Append(qmsgs, PlainMsg("assistant", ret'.result))
       /\ caller.pc = "query" /\ ret'.op = "query" /\ ret'.err # ""
             => qmsgs' = SubSeq(qmsgs, 1, Len(qmsgs) - 1)]_vars

\* The errors of the build phase in the error history of a watcher
BuildErrors(w) == SelectSeq(watchers[w].errorHistory, LAMBDA e : e.Type # "test")

\* C36: after every completed build cycle each error recorded from the build
\* phase has one RepairResult, in the same order, so the repair history is as
\* long as the error history has entries whose type is not test; and every
\* RepairResult has between 0 and 2 attempts, at least 1 when it succeeded.
C36_OneRepairPerBuildError ==
    \A w \in WatcherIds :
        /\ watchers[w].pc \in {"select", "returned"} =>
              /\ Len(watchers[w].repairHistory) = Len(BuildErrors(w))
              /\ \A i \in DOMAIN watchers[w].repairHistory :
                    watchers[w].repairHistory[i].Error = BuildErrors(w)[i]
        /\ \A i \in DOMAIN watchers[w].repairHistory :
              /\ watchers[w].repairHistory[i].Attempts \in 0..2
              /\ watchers[w].repairHistory[i].Success =>
                    watchers[w].repairHistory[i].Attempts >= 1

\* a watcher between two cycles whose histories hold test errors, a repair
\* that took two attempts and one that succeeded
C36_Witness ==
    \E w \in WatcherIds :
        /\ watchers[w].pc = "select"
        /\ Len(watchers[w].errorHistory) > Len(watchers[w].repairHistory)
        /\ \E i, j \in DOMAIN watchers[w].repairHistory :
              /\ watchers[w].repairHistory[i].Attempts = 2
              /\ watchers[w].repairHistory[j].Success

\* C37: an agent that ends as completed, by a final answer or at the cap of
\* iterations, has as TokensUsed the sum of the total_tokens of all responses
\* it received; an agent that ends as failed or cancelled has TokensUsed 0,
\* whatever its responses reported.
C37_TokensOfCompletedRuns ==
    \A a \in agentTasks :
        /\ agents[a].Status = "completed" => agents[a].TokensUsed = hist[a].usage
        /\ agents[a].Status \in {"failed", "cancelled"} => agents[a].TokensUsed = 0

\* an agent has completed after a response with tool calls and a final answer
\* that reported 40 and 65 tokens
C37_Witness ==
    \E a \in agentTasks :
        /\ agents[a].Status = "completed"
        /\ agents[a].Done
        /\ hist[a].calls = 2
        /\ agents[a].TokensUsed = 105

\* C38: ClearCompletedAgents removes exactly the agents whose Done is set at
\* the call and returns their number; it changes no agent, no goroutine and no
\* context, every goroutine that has not set Done still has its agent in the
\* map, a cancel_agent call on such an agent cancels its context, and
\* GetActiveAgentCount returns the number of agents of the map that are not
\* done.
C38_ClearRemovesDoneOnly ==
    [][/\ (ret = NoRet /\ ret'.op = "clear_agents") =>
             /\ agentTasks' = {a \in agentTasks : ~agents[a].Done}
             /\ ret'.count = Cardinality({a \in agentTasks : agents[a].Done})
             /\ agents' = agents /\ run' = run /\ ctx' = ctx
       /\ (ret = NoRet /\ ret'.op = "active_count") =>
             /\ ret'.count = Cardinality({a \in agentTasks' : ~agents'[a].Done})
             /\ agentTasks' = agentTasks /\ agents' = agents
       /\ \A a \in AgentIds :
             /\ run'[a].pc \notin {"none", "done"} =>
                   a \in agentTasks' /\ ~agents'[a].Done
             /\ (caller.pc = "idle" /\ caller'.pc = "cancel_return" /\ caller'.id = a
                   /\ ~agents[a].Done) => ctx'[a]
      ]_vars

\* A clear has removed a finished agent and left one whose goroutine is
\* waiting for the provider.
C38_Witness ==
    /\ ret.op = "clear_agents" /\ ret.count >= 1
    /\ \E a \in agentTasks : ~agents[a].Done /\ run[a].pc = "http"
    /\ \E b \in AgentIds \ agentTasks : agents[b].Done

\* C39: a port scan or a LAN scan that has started its goroutines returns:
\* every goroutine finishes, none is held at the semaphore or at the send on
\* results, whose capacity is the number of goroutines and takes one line of
\* each at most; the call returns when all have finished, with as many lines
\* as were sent.
C39_ScansReturn ==
    /\ (scan.op # "none") ~> (scan.op = "none")
    /\ [](/\ scan.results <= scan.finished
          /\ scan.waiting + scan.dialing + scan.finished = scan.spawned
          /\ scan.spawned <= scan.n
          /\ scan.dialing > 0 => scan.results < scan.n)
    /\ [][(scan.op # "none" /\ scan'.op = "none") =>
             /\ scan.finished = scan.n /\ scan.waiting = 0 /\ scan.dialing = 0
             /\ scan.sem = 0
             /\ ret'.op = scan.op /\ ret'.err = "" /\ ret'.count = scan.results]_vars

\* A LAN scan of a range wider than the semaphore has returned the lines of
\* more hosts than the semaphore has places.
C39_Witness ==
    ret.op = "lan_scan" /\ ret.err = "" /\ ret.count > PoolWidth

=============================================================================
